---- MODULE Spec2Model ----
(***************************************************************************)
(* Model of the solana-api-toolkit core: TokenService (provider fallback,  *)
(* result cache, portfolio enrichment) and HttpClient / CircuitBreaker.    *)
(*                                                                         *)
(* JavaScript runs every piece of code between two awaits atomically, so   *)
(* each action below is one such run-to-completion segment.                *)
(***************************************************************************)
EXTENDS Integers, Sequences, FiniteSets, TLC

VARIABLES
    config,     \* the TokenServiceConfig passed to the constructor
    built,      \* the outcome of the constructor: the service exists, or the error thrown
    providers,  \* TokenService.providers: the sorted list of provider names
    cache,      \* SimpleCache.cache: Map key -> [value, expiry]
    objs,       \* heap of TokenBalance[] arrays, shared by reference
    frames,     \* activations of the async TokenService methods
    now,        \* Date.now()
    ticks,      \* number of clock advances so far (bounds the model)
    calls,      \* number of calls made so far by the user (bounds the model)
    breaker,    \* a CircuitBreaker: threshold, resetTimeout, failures, lastFailureTime, isOpen
    ret,        \* the last call made on the CircuitBreaker directly, and what it returned
    streak,     \* number of recordFailure calls since the last recordSuccess (history)
    reqs,       \* activations of HttpClient.request on the client that owns the breaker
    maxRetries, \* HttpClient.config.maxRetries
    breakers,   \* per provider built on HttpClient: the CircuitBreaker of its client
    got,        \* the last call made on the SimpleCache directly, and what it returned
    sets        \* per key: the last set(key, ...) and whether the key was removed since (history)

service == <<config, built, providers, cache, objs, frames, calls>>
http == <<breaker, ret, streak, reqs, maxRetries>>
probe == <<got, sets>>
clients == <<breakers>>
vars == <<config, built, providers, cache, objs, frames, now, ticks, calls, breaker, ret, streak, reqs, maxRetries,
          breakers, got, sets>>

----------------------------------------------------------------------------
(* Bounds of the model *)

MaxFrames == 4      \* activations alive at the same time
MaxTop == 2         \* overlapping calls made by the user of the service
MaxObjs == 2        \* TokenBalance[] arrays alive at the same time
MaxTicks == 1       \* clock advances
MaxCalls == 2       \* calls made by the user of the service

FrameIds == 1..MaxFrames
ObjIds == 1..MaxObjs

----------------------------------------------------------------------------
(* Program constants *)

DEFAULT_CACHE_TTL == 5 * 60 * 1000
PRICE_CACHE_TTL == 60 * 1000
solMint == "So11111111111111111111111111111111111111112"

\* base58 strings accepted by new PublicKey(...) among the inputs of the model
ValidAddresses == {solMint, "MintA", "MintB", "Wallet1"}
InvalidAddresses == {"invalid-mint"}

\* (mutant) validation that accepts every string
AcceptsAnyAddress(address) == TRUE

isValidSolanaAddress(address) == address \in ValidAddresses

----------------------------------------------------------------------------
(* Providers *)

\* the blocks of TokenServiceConfig in the order initializeProviders reads them
PushOrder == <<"heliusDas", "jupiter", "birdeye", "solscan", "coinmarketcap", "coingecko">>

NoPriority == -1    \* config.priority is undefined

ProviderName(block) ==
    CASE block = "heliusDas" -> "helius-das"
      [] OTHER -> block

DefaultPriority(block) ==
    CASE block = "heliusDas" -> 1
      [] block = "jupiter" -> 2
      [] block = "birdeye" -> 3
      [] block = "solscan" -> 4
      [] block = "coinmarketcap" -> 2
      [] block = "coingecko" -> 6
      [] block = "helius" -> 1
      [] block = "pyth" -> 1

\* the methods each provider class defines
Capabilities(name) ==
    IF name = "helius-das"
    THEN {"getTokenPrice", "getTokenMetadata", "getTokenBalances", "getWalletPortfolio"}
    ELSE {"getTokenPrice", "getTokenMetadata"}

\* this.priority = config.priority ?? default
Priority(cfg, block) ==
    IF cfg[block] = NoPriority THEN DefaultPriority(block) ELSE cfg[block]

BlockOf(name) == CHOOSE b \in {PushOrder[i] : i \in 1..Len(PushOrder)} : ProviderName(b) = name

RECURSIVE PushConfigured(_, _)
PushConfigured(cfg, i) ==
    IF i > Len(PushOrder) THEN <<>>
    ELSE (IF PushOrder[i] \in DOMAIN cfg THEN <<PushOrder[i]>> ELSE <<>>)
         \o PushConfigured(cfg, i + 1)

\* initializeProviders: one provider per configured block, in push order
initializeProviders(cfg) == PushConfigured(cfg, 1)

\* Array.prototype.sort with (a, b) => a.priority - b.priority is stable
RECURSIVE InsertSorted(_, _, _)
InsertSorted(cfg, sorted, b) ==
    IF sorted = <<>> THEN <<b>>
    ELSE IF Priority(cfg, Head(sorted)) <= Priority(cfg, b)
         THEN <<Head(sorted)>> \o InsertSorted(cfg, Tail(sorted), b)
         ELSE <<b>> \o sorted

RECURSIVE SortFrom(_, _, _, _)
SortFrom(cfg, list, i, acc) ==
    IF i > Len(list) THEN acc
    ELSE SortFrom(cfg, list, i + 1, InsertSorted(cfg, acc, list[i]))

\* (mutant) the providers stay in the order they were pushed
SortByPriorityKeepsPushOrder(cfg, list) == list

SortByPriority(cfg, list) == SortFrom(cfg, list, 1, <<>>)

\* the constructor: push the configured providers, then sort them
Construct(cfg) ==
    LET sorted == SortByPriority(cfg, initializeProviders(cfg))
    IN [i \in 1..Len(sorted) |-> ProviderName(sorted[i])]

\* the outcome of `new TokenService(config)`
Constructed == [kind |-> "service"]
NotConstructed == [kind |-> "none"]
NoProvidersError ==
    [kind |-> "error", name |-> "Error", message |-> <<"No token data providers configured">>]

\* (mutant) an empty provider list is accepted
NoProvidersConfiguredNever(pushed) == FALSE

\* `if (this.providers.length === 0)`
NoProvidersConfigured(pushed) == Len(pushed) = 0

\* new TokenService(cfg): the error initializeProviders throws, or the service
\* with its sorted provider list
TokenServiceConstructor(cfg) ==
    IF NoProvidersConfigured(initializeProviders(cfg))
    THEN [built |-> NoProvidersError, providers |-> <<>>]
    ELSE [built |-> Constructed, providers |-> Construct(cfg)]

\* the provider blocks TokenServiceConfig declares
DocumentedBlocks ==
    {"helius", "heliusDas", "jupiter", "birdeye", "solscan", "coinmarketcap", "coingecko", "pyth"}

\* cacheTtl: 10 * 60 * 1000, the value the package documentation configures
ConfiguredCacheTtl == 10 * 60 * 1000

\* the configurations the model constructs services from: a config maps each
\* provider block it contains to the block's priority, and cacheTtl to its value
Configs ==
    { [b \in {"heliusDas", "jupiter"} |-> NoPriority],
      [b \in {"jupiter", "birdeye"} |-> IF b = "jupiter" THEN 2 ELSE 1],
      [b \in {"heliusDas", "jupiter", "cacheTtl"} |->
          CASE b = "heliusDas" -> 5
            [] b = "jupiter" -> NoPriority
            [] b = "cacheTtl" -> ConfiguredCacheTtl] }

----------------------------------------------------------------------------
(* Values *)

None == [kind |-> "none"]
Unset == -1     \* an optional number that is undefined

Ops == {"getTokenPrice", "getTokenMetadata", "getTokenBalances", "getWalletPortfolio", "getTokenData"}
LoopOps == {"getTokenPrice", "getTokenMetadata", "getTokenBalances", "getWalletPortfolio"}

Prefix(op) ==
    CASE op = "getTokenPrice" -> "token-price"
      [] op = "getTokenMetadata" -> "token-metadata"
      [] op = "getTokenBalances" -> "token-balances"
      [] op = "getWalletPortfolio" -> "wallet-portfolio"
      [] op = "getTokenData" -> "token-data"

\* `${prefix}:${subject}`
CacheKey(op, subject) == <<Prefix(op), ":", subject>>

\* (mutant) every operation caches with the default TTL
TtlOfDefaultEverywhere(op) == DEFAULT_CACHE_TTL

\* the TTL each operation passes to cache.set
TtlOf(op) ==
    IF op \in {"getTokenPrice", "getTokenData"} THEN PRICE_CACHE_TTL ELSE DEFAULT_CACHE_TTL

What(op) ==
    CASE op = "getTokenPrice" -> "token price"
      [] op = "getTokenMetadata" -> "token metadata"
      [] op = "getTokenBalances" -> "token balances"
      [] op = "getWalletPortfolio" -> "wallet portfolio"
      [] op = "getTokenData" -> "token data"

\* Messages are sequences of text pieces; concatenation is \o.
RECURSIVE JoinMsgs(_)
JoinMsgs(list) ==
    IF list = <<>> THEN <<>>
    ELSE IF Len(list) = 1 THEN list[1]
    ELSE list[1] \o <<", ">> \o JoinMsgs(Tail(list))

\* `${provider.name}: ${errorMessage}`
ProviderError(name, msg) == <<name, ": ">> \o msg

\* `Failed to get <what> for ${subject}: ${errors.map(e => e.message).join(', ')}`
AggregateMessage(op, subject, errors) ==
    <<"Failed to get " , What(op), " for ", subject, ": ">> \o JoinMsgs(errors)

ValidationError(op) ==
    [kind |-> "error", name |-> "ValidationError",
     message |-> IF op \in {"getTokenBalances", "getWalletPortfolio"}
                 THEN <<"Invalid wallet address">> ELSE <<"Invalid token mint address">>]

PlainError(msg) == [kind |-> "error", name |-> "Error", message |-> msg]

----------------------------------------------------------------------------
(* SimpleCache *)

\* (mutant) an entry never expires
SimpleCacheGetIgnoresExpiry(c, key, t) ==
    IF key \notin DOMAIN c THEN None
    ELSE c[key].value

\* (mutant) an entry counts as expired already at its expiry time
SimpleCacheGetStrict(c, key, t) ==
    IF key \notin DOMAIN c THEN [kind |-> "none"]
    ELSE IF t >= c[key].expiry THEN [kind |-> "none"]
    ELSE c[key].value

\* get: undefined when absent or when Date.now() > expiry
SimpleCacheGet(c, key, t) ==
    IF key \notin DOMAIN c THEN None
    ELSE IF t > c[key].expiry THEN None
    ELSE c[key].value

\* get deletes an expired entry when it reads it
SimpleCacheAfterGet(c, key, t) ==
    IF key \in DOMAIN c /\ t > c[key].expiry
    THEN [k \in DOMAIN c \ {key} |-> c[k]]
    ELSE c

\* (mutant) set keeps the expiry of an entry that is already there
SimpleCacheSetKeepsExpiry(c, key, value, ttlMs, t) ==
    [k \in DOMAIN c \cup {key} |->
        IF k = key
        THEN [value |-> value, expiry |-> IF key \in DOMAIN c THEN c[key].expiry ELSE t + ttlMs]
        ELSE c[k]]

\* (mutant) set leaves an entry that is already there as it is
SimpleCacheSetIfAbsent(c, key, value, ttlMs, t) ==
    IF key \in DOMAIN c THEN c
    ELSE [k \in DOMAIN c \cup {key} |->
            IF k = key THEN [value |-> value, expiry |-> t + ttlMs] ELSE c[k]]

\* set: overwrite, expiry = Date.now() + ttlMs
SimpleCacheSet(c, key, value, ttlMs, t) ==
    [k \in DOMAIN c \cup {key} |->
        IF k = key THEN [value |-> value, expiry |-> t + ttlMs] ELSE c[k]]

\* (mutant) delete drops every entry
SimpleCacheDeleteAll(c, key) ==
    [k \in {} |-> None]

\* delete(key)
SimpleCacheDelete(c, key) ==
    [k \in DOMAIN c \ {key} |-> c[k]]

\* clear()
SimpleCacheClear(c) ==
    [k \in {} |-> None]

----------------------------------------------------------------------------
(* SimpleCache on its own, driven by any caller *)

CacheKeys == {"k1", "k2"}
CacheValues == {[kind |-> "value", data |-> "a"], [kind |-> "value", data |-> "b"]}
Ttls == {1, 1000}

\* replaced: the expiry of the entry the last set overwrote, if it overwrote one
NeverSet == [value |-> None, at |-> 0, ttlMs |-> 0, live |-> FALSE, replaced |-> Unset]
NoGet == [op |-> "none", key |-> "none", value |-> None, n |-> 0]
Got(op, key, value) == [op |-> op, key |-> key, value |-> value, n |-> 1 - got.n]

ProbeInit ==
    /\ got = NoGet
    /\ sets = [k \in CacheKeys |-> NeverSet]

\* a caller of the SimpleCache class calls set(key, value, ttlMs)
CacheSet(key, value, ttlMs) ==
    /\ cache' = SimpleCacheSet(cache, key, value, ttlMs, now)
    /\ got' = Got("set", key, None)
    /\ sets' = [sets EXCEPT ![key] =
          [value |-> value, at |-> now, ttlMs |-> ttlMs, live |-> TRUE,
           replaced |-> IF key \in DOMAIN cache THEN cache[key].expiry ELSE Unset]]
    /\ UNCHANGED <<clients, config, built, providers, objs, frames, calls, now, ticks, http>>

\* a caller of the SimpleCache class calls get(key)
CacheGet(key) ==
    /\ cache' = SimpleCacheAfterGet(cache, key, now)
    /\ got' = Got("get", key, SimpleCacheGet(cache, key, now))
    /\ UNCHANGED <<clients, config, built, providers, objs, frames, calls, now, ticks, http, sets>>

\* a caller of the SimpleCache class calls delete(key)
CacheDelete(key) ==
    /\ cache' = SimpleCacheDelete(cache, key)
    /\ got' = Got("delete", key, None)
    /\ sets' = [sets EXCEPT ![key].live = FALSE]
    /\ UNCHANGED <<clients, config, built, providers, objs, frames, calls, now, ticks, http>>

\* a caller of the SimpleCache class calls clear()
CacheClear ==
    /\ cache' = SimpleCacheClear(cache)
    /\ got' = Got("clear", "none", None)
    /\ sets' = [k \in CacheKeys |-> [sets[k] EXCEPT !.live = FALSE]]
    /\ UNCHANGED <<clients, config, built, providers, objs, frames, calls, now, ticks, http>>

\* `if (cached) return cached`: every value the service stores is an object
Truthy(v) == v.kind # "none"

----------------------------------------------------------------------------
(* Activations of the async methods of TokenService *)

FreeFrame ==
    [pc |-> "free", op |-> "none", subject |-> "none", parent |-> 0, role |-> "none",
     k |-> 0, idx |-> 0, errors |-> <<>>, log |-> <<>>, hit |-> FALSE, path |-> "none",
     nested |-> <<>>, work |-> None, total |-> 0, fetched |-> <<>>, refused |-> FALSE,
     result |-> None]

\* refused: the client of the provider the activation awaits found its circuit
\* open when it was invoked, so the awaited promise is going to reject
\* fetched (history): the price each fetch of an enrichment gave, by position
\* (0 for SOL, k for the k-th token), Unset when the fetch failed
Fetched(fetched, k, outcome) ==
    [i \in DOMAIN fetched \cup {k} |->
        IF i = k THEN (IF outcome.kind = "price" THEN outcome.priceUsd ELSE Unset) ELSE fetched[i]]

Settled(fr) == fr.pc \in {"resolved", "rejected"}

FreeIds(fs) == {i \in FrameIds : fs[i].pc = "free"}
TopIds(fs) == {i \in FrameIds : fs[i].pc # "free" /\ fs[i].parent = 0}
Kids(fs, f) == {i \in FrameIds : fs[i].pc # "free" /\ fs[i].parent = f}
Kid(fs, f, role) == CHOOSE i \in Kids(fs, f) : fs[i].role = role
MinOf(S) == CHOOSE i \in S : \A j \in S : i <= j

\* the arrays still referenced by the cache or by an activation
LiveObjs(c, fs) ==
    {c[key].value.tokens : key \in {q \in DOMAIN c : c[q].value.kind \in {"balances", "portfolio"}}}
    \cup {fs[i].work.tokens : i \in {j \in FrameIds : fs[j].work.kind = "portfolio"}}
    \cup {fs[i].result.tokens : i \in {j \in FrameIds : fs[j].result.kind \in {"balances", "portfolio"}}}

\* what the activation did with the providers, in order (history)
InvokeEvent(name) == [ev |-> "invoke", provider |-> name, ok |-> FALSE, msg |-> <<>>]
ReturnEvent(name) == [ev |-> "return", provider |-> name, ok |-> TRUE, msg |-> <<>>]
ThrowEvent(name, msg) == [ev |-> "return", provider |-> name, ok |-> FALSE, msg |-> msg]

\* (mutant) the loop starts over at the head of the list after a failure
NextCapableRestarts(op, from) ==
    LET S == {i \in 1..Len(providers) : op \in Capabilities(providers[i])}
    IN IF S = {} \/ from > Len(providers) + 1 THEN 0 ELSE CHOOSE i \in S : \A j \in S : i <= j

\* (mutant) the loop starts at the second provider
NextCapableOffByOne(op, from) ==
    LET S == {i \in (from + 1)..Len(providers) : op \in Capabilities(providers[i])}
    IN IF S = {} THEN 0 ELSE CHOOSE i \in S : \A j \in S : i <= j

\* (mutant) the loop invokes every provider, whether it implements op or not
NextCapableNoSkip(op, from) ==
    IF from <= Len(providers) THEN from ELSE 0

\* the position of the next provider, from position `from` on, that implements op
\* (0 when the list is exhausted): `if (!provider.getX) continue`
NextCapable(op, from) ==
    LET S == {i \in from..Len(providers) : op \in Capabilities(providers[i])}
    IN IF S = {} THEN 0 ELSE MinOf(S)

\* (mutant) a provider failure ends the loop
LoopFromAborts(fr, from) ==
    LET i == IF from > 1 THEN 0 ELSE NextCapable(fr.op, from)
    IN IF i # 0
       THEN [fr EXCEPT !.pc = "awaitProvider", !.idx = i,
                       !.log = Append(@, InvokeEvent(providers[i]))]
       ELSE [fr EXCEPT !.pc = "exhausted", !.idx = 0]

\* the for-loop from position `from` up to its next await or to its end
LoopFrom(fr, from) ==
    LET i == NextCapable(fr.op, from)
    IN IF i # 0
       THEN [fr EXCEPT !.pc = "awaitProvider", !.idx = i,
                       !.log = Append(@, InvokeEvent(providers[i]))]
       ELSE [fr EXCEPT !.pc = "exhausted", !.idx = 0]

\* throw new Error(`Failed to get ... : ${errors...}`)
Reject(fr) ==
    [fr EXCEPT !.pc = "rejected", !.idx = 0,
               !.result = PlainError(AggregateMessage(fr.op, fr.subject, fr.errors))]

\* getTokenPrice / getTokenMetadata / getTokenBalances from the call up to the
\* first await: validation, cache lookup, first provider invoked.
\* Gives the activation and the cache it leaves.
BeginLoopOp(op, subject, parent, role, k, c) ==
    LET base == [FreeFrame EXCEPT !.op = op, !.subject = subject, !.parent = parent,
                                  !.role = role, !.k = k]
        key == CacheKey(op, subject)
        cached == SimpleCacheGet(c, key, now)
    IN IF ~isValidSolanaAddress(subject)
       THEN [frame |-> [base EXCEPT !.pc = "rejected", !.result = ValidationError(op)],
             cache |-> c]
       ELSE IF Truthy(cached)
       THEN [frame |-> [base EXCEPT !.pc = "resolved", !.hit = TRUE, !.result = cached],
             cache |-> c]
       ELSE LET fr == LoopFrom(base, 1)
            IN [frame |-> IF fr.pc = "exhausted" /\ op # "getWalletPortfolio"
                          THEN Reject(fr) ELSE fr,
                cache |-> SimpleCacheAfterGet(c, key, now)]

----------------------------------------------------------------------------
(* What the providers can return *)

Prices == {3}
ErrorMessages == {"timeout"}

TokenLists ==
    { <<[mint |-> "MintA", uiAmount |-> 2, hasInfo |-> TRUE, priceUsd |-> Unset, priceChangePercentage24h |-> Unset]>>,
      <<[mint |-> "MintA", uiAmount |-> 2, hasInfo |-> TRUE, priceUsd |-> Unset, priceChangePercentage24h |-> Unset],
        [mint |-> "MintB", uiAmount |-> 3, hasInfo |-> FALSE, priceUsd |-> Unset, priceChangePercentage24h |-> Unset]>> }

SolBalances == {4}
ProviderTotals == {100}

\* helius-das reports no 24h change, the other providers do
PriceValue(mint, priceUsd, name) ==
    [kind |-> "price", mint |-> mint, priceUsd |-> priceUsd,
     priceChangePercentage24h |-> IF name = "helius-das" THEN Unset ELSE 5,
     provider |-> name]

MetadataValue(mint, name) ==
    [kind |-> "metadata", mint |-> mint, name |-> "Token", symbol |-> "TKN", decimals |-> 6,
     priceUsd |-> Unset, priceChangePercentage24h |-> Unset]

----------------------------------------------------------------------------
(* CircuitBreaker *)

DefaultThreshold == 5
DefaultResetTimeout == 30000

MaxFailures == 7    \* recordFailure calls counted by one breaker
MaxClock == 2       \* clock advances while the breaker is exercised

\* new CircuitBreaker(threshold, resetTimeout)
NewCircuitBreaker(threshold, resetTimeout) ==
    [threshold |-> threshold, resetTimeout |-> resetTimeout,
     failures |-> 0, lastFailureTime |-> 0, isOpen |-> FALSE]

recordSuccessKeepsCount(b) ==
    [b EXCEPT !.isOpen = FALSE]

recordSuccess(b) ==
    [b EXCEPT !.failures = 0, !.isOpen = FALSE]

recordFailureStrict(b, t) ==
    LET failures == b.failures + 1
    IN [b EXCEPT !.failures = failures,
                 !.lastFailureTime = t,
                 !.isOpen = IF failures > b.threshold THEN TRUE ELSE @]

\* the breaker after recordFailure() at time t; the call returns its isOpen
recordFailure(b, t) ==
    LET failures == b.failures + 1
    IN [b EXCEPT !.failures = failures,
                 !.lastFailureTime = t,
                 !.isOpen = IF failures >= b.threshold THEN TRUE ELSE @]

canRequestResetsCount(b, t) ==
    IF ~b.isOpen THEN [value |-> TRUE, breaker |-> b]
    ELSE IF t - b.lastFailureTime > b.resetTimeout
         THEN [value |-> TRUE, breaker |-> [b EXCEPT !.isOpen = FALSE, !.failures = 0]]
         ELSE [value |-> FALSE, breaker |-> b]

canRequestEarly(b, t) ==
    IF ~b.isOpen THEN [value |-> TRUE, breaker |-> b]
    ELSE IF t - b.lastFailureTime >= b.resetTimeout
         THEN [value |-> TRUE, breaker |-> [b EXCEPT !.isOpen = FALSE]]
         ELSE [value |-> FALSE, breaker |-> b]

\* canRequest() at time t: the value it returns and the breaker it leaves
canRequest(b, t) ==
    IF ~b.isOpen THEN [value |-> TRUE, breaker |-> b]
    ELSE IF t - b.lastFailureTime > b.resetTimeout
         THEN [value |-> TRUE, breaker |-> [b EXCEPT !.isOpen = FALSE]]
         ELSE [value |-> FALSE, breaker |-> b]

NoCall == [op |-> "none", value |-> FALSE, wasOpen |-> FALSE, n |-> 0]
Returned(op, value) == [op |-> op, value |-> value, wasOpen |-> breaker.isOpen, n |-> 1 - ret.n]

\* a caller of the CircuitBreaker class calls recordSuccess()
CallRecordSuccess ==
    /\ breaker' = recordSuccess(breaker)
    /\ ret' = Returned("recordSuccess", FALSE)
    /\ streak' = 0
    /\ UNCHANGED <<clients, service, probe, now, ticks, reqs, maxRetries>>

\* a caller of the CircuitBreaker class calls recordFailure()
CallRecordFailure ==
    /\ breaker.failures < MaxFailures
    /\ breaker' = recordFailure(breaker, now)
    /\ ret' = Returned("recordFailure", breaker'.isOpen)
    /\ streak' = streak + 1
    /\ UNCHANGED <<clients, service, probe, now, ticks, reqs, maxRetries>>

\* a caller of the CircuitBreaker class calls canRequest()
CallCanRequest ==
    /\ breaker' = canRequest(breaker, now).breaker
    /\ ret' = Returned("canRequest", canRequest(breaker, now).value)
    /\ UNCHANGED <<clients, service, probe, now, ticks, streak, reqs, maxRetries>>

\* time passes for the breaker: one millisecond, or a whole resetTimeout
Elapse(d) ==
    /\ ticks < MaxClock
    /\ now' = now + d
    /\ ticks' = ticks + 1
    /\ UNCHANGED <<clients, service, http, probe>>

Thresholds == {1, 3, DefaultThreshold}
ResetTimeouts == {1000, DefaultResetTimeout}

----------------------------------------------------------------------------
(* HttpClient *)

DefaultMaxRetries == 3
MaxReqs == 2        \* requests in flight on one client at the same time

ReqIds == 1..MaxReqs
Endpoint == "/test"
NoResponse == 0
Statuses == {NoResponse, 401, 403, 404, 429, 500}

NoError == [name |-> "none", message |-> <<>>, statusCode |-> Unset]

ApiRequestError(message, statusCode) ==
    [name |-> "ApiRequestError",
     message |-> <<"API Request Error (", Endpoint, "): ">> \o message,
     statusCode |-> statusCode]

RateLimitError == [ApiRequestError(<<"Rate limit exceeded">>, 429) EXCEPT !.name = "RateLimitError"]
AuthenticationError == [ApiRequestError(<<"Authentication failed">>, 401) EXCEPT !.name = "AuthenticationError"]
NotFoundError == [ApiRequestError(<<"Resource not found: ", "Resource">>, 404) EXCEPT !.name = "NotFoundError"]

\* the message of the server's reply, or of the AxiosError when there is no reply
ServerMessage(status) == IF status = NoResponse THEN "Network Error" ELSE "Internal server error"

\* the error handleAxiosError throws for a failed attempt
handleAxiosError(status) ==
    IF status = 429 THEN RateLimitError
    ELSE IF status = 401 \/ status = 403 THEN AuthenticationError
    ELSE IF status = 404 THEN NotFoundError
    ELSE ApiRequestError(<<ServerMessage(status)>>, IF status = NoResponse THEN Unset ELSE status)

\* the error the outer catch of request throws for what pRetry rejected with
RequestFailed(error) == ApiRequestError(<<"Request failed: ">> \o error.message, Unset)

CircuitOpenError == ApiRequestError(<<"Circuit breaker is open">>, Unset)

\* consulted (history): the number of canRequest() calls made for the request;
\* retriedOpen (history): a retry attempt was made while the circuit was open
\* and its reset timeout had not elapsed
IdleReq ==
    [pc |-> "idle", attempts |-> 0, failure |-> Unset, error |-> NoError,
     trial |-> FALSE, overlapped |-> FALSE, consulted |-> 0, retriedOpen |-> FALSE]

Pending(rq) == rq.pc \in {"inflight", "backoff"}

\* the providers whose client extends HttpClient (helius-das uses the Helius SDK)
HttpBacked == {"jupiter", "birdeye", "solscan", "coinmarketcap", "coingecko"}

\* `private circuitBreaker = new CircuitBreaker()` in every client
ClientsInit ==
    breakers = [name \in HttpBacked |-> NewCircuitBreaker(DefaultThreshold, DefaultResetTimeout)]

HttpInit ==
    /\ ClientsInit
    /\ breaker = NewCircuitBreaker(DefaultThreshold, DefaultResetTimeout)
    /\ ret = NoCall
    /\ streak = 0
    /\ reqs = [r \in ReqIds |-> IdleReq]
    /\ maxRetries = DefaultMaxRetries

requestUngated(r) ==
    /\ reqs[r].pc = "idle"
    /\ reqs' = [reqs EXCEPT ![r] = [IdleReq EXCEPT !.pc = "inflight", !.attempts = 1]]
    /\ UNCHANGED <<clients, service, probe, now, ticks, breaker, ret, streak, maxRetries>>

\* (mutant) a request refused by the gate is recorded as a failure
requestRecordsRefusal(r) ==
    /\ reqs[r].pc = "idle"
    /\ breaker.failures < MaxFailures
    /\ LET gate == canRequest(breaker, now)
       IN /\ breaker' = IF gate.value THEN gate.breaker ELSE recordFailure(breaker, now)
          /\ reqs' = [reqs EXCEPT ![r] =
                IF ~gate.value
                THEN [IdleReq EXCEPT !.pc = "rejected", !.error = CircuitOpenError, !.consulted = 1]
                ELSE [IdleReq EXCEPT !.pc = "inflight", !.attempts = 1, !.consulted = 1,
                                     !.trial = breaker.isOpen,
                                     !.overlapped = \E o \in ReqIds : Pending(reqs[o]) /\ reqs[o].trial]]
    /\ UNCHANGED <<clients, service, probe, now, ticks, ret, streak, maxRetries>>

\* HttpClient.request up to its first await: the gate, then the first attempt.
\* trial: the call found the circuit open and closed it (reset timeout elapsed);
\* overlapped: the call passed the gate while such a call was still pending.
request(r) ==
    /\ reqs[r].pc = "idle"
    /\ LET gate == canRequest(breaker, now)
       IN /\ breaker' = gate.breaker
          /\ reqs' = [reqs EXCEPT ![r] =
                IF ~gate.value
                THEN [IdleReq EXCEPT !.pc = "rejected", !.error = CircuitOpenError, !.consulted = 1]
                ELSE [IdleReq EXCEPT !.pc = "inflight", !.attempts = 1, !.consulted = 1,
                                     !.trial = breaker.isOpen,
                                     !.overlapped = \E o \in ReqIds : Pending(reqs[o]) /\ reqs[o].trial]]
    /\ UNCHANGED <<clients, service, probe, now, ticks, ret, streak, maxRetries>>

\* the HTTP call of the current attempt resolves
AttemptSucceeds(r) ==
    /\ reqs[r].pc = "inflight"
    /\ breaker' = recordSuccess(breaker)
    /\ streak' = 0
    /\ reqs' = [reqs EXCEPT ![r].pc = "resolved"]
    /\ UNCHANGED <<clients, service, probe, now, ticks, ret, maxRetries>>

AttemptFailsOneShort(r, status) ==
    /\ reqs[r].pc = "inflight"
    /\ reqs[r].failure \in {Unset, status}
    /\ IF reqs[r].attempts < maxRetries
       THEN /\ reqs' = [reqs EXCEPT ![r].pc = "backoff", ![r].failure = status]
            /\ UNCHANGED <<breaker, streak>>
       ELSE /\ breaker.failures < MaxFailures
            /\ breaker' = recordFailure(breaker, now)
            /\ streak' = streak + 1
            /\ reqs' = [reqs EXCEPT ![r].pc = "rejected", ![r].failure = status,
                                    ![r].error = RequestFailed(handleAxiosError(status))]
    /\ UNCHANGED <<clients, service, probe, now, ticks, ret, maxRetries>>

\* the HTTP call of the current attempt fails; the server answers the retries
\* of one request as it answered its first attempt.  pRetry retries while
\* retries are left, whatever the error; when none is left request records one
\* failure and throws.
AttemptFails(r, status) ==
    /\ reqs[r].pc = "inflight"
    /\ reqs[r].failure \in {Unset, status}
    /\ IF reqs[r].attempts <= maxRetries
       THEN /\ reqs' = [reqs EXCEPT ![r].pc = "backoff", ![r].failure = status]
            /\ UNCHANGED <<breaker, streak>>
       ELSE /\ breaker.failures < MaxFailures
            /\ breaker' = recordFailure(breaker, now)
            /\ streak' = streak + 1
            /\ reqs' = [reqs EXCEPT ![r].pc = "rejected", ![r].failure = status,
                                    ![r].error = RequestFailed(handleAxiosError(status))]
    /\ UNCHANGED <<clients, service, probe, now, ticks, ret, maxRetries>>

\* (mutant) every retry attempt passes through the gate again
RetryAttemptGated(r) ==
    /\ reqs[r].pc = "backoff"
    /\ LET gate == canRequest(breaker, now)
       IN /\ breaker' = gate.breaker
          /\ reqs' = [reqs EXCEPT ![r] =
                IF gate.value
                THEN [@ EXCEPT !.pc = "inflight", !.attempts = @ + 1, !.consulted = @ + 1]
                ELSE [@ EXCEPT !.pc = "rejected", !.error = CircuitOpenError, !.consulted = @ + 1]]
    /\ UNCHANGED <<clients, service, probe, now, ticks, ret, streak, maxRetries>>

\* the back-off timer of pRetry fires and the next attempt is made
RetryAttempt(r) ==
    /\ reqs[r].pc = "backoff"
    /\ reqs' = [reqs EXCEPT ![r].pc = "inflight", ![r].attempts = @ + 1,
                            ![r].retriedOpen = @ \/ ~canRequest(breaker, now).value]
    /\ UNCHANGED <<clients, service, probe, now, ticks, breaker, ret, streak, maxRetries>>

\* the caller takes the outcome of a settled request
Settle(r) ==
    /\ reqs[r].pc \in {"resolved", "rejected"}
    /\ reqs' = [reqs EXCEPT ![r] = IdleReq]
    /\ UNCHANGED <<clients, service, probe, now, ticks, breaker, ret, streak, maxRetries>>

MaxRetriesChoices == {0, DefaultMaxRetries}

----------------------------------------------------------------------------
(* TokenService: the state after construction *)

ServiceInit ==
    /\ config \in Configs
    /\ built = Constructed
    /\ providers = Construct(config)
    /\ cache = [key \in {} |-> None]
    /\ objs = [o \in ObjIds |-> <<>>]
    /\ frames = [f \in FrameIds |-> FreeFrame]
    /\ calls = 0

ClockInit ==
    /\ now = 0
    /\ ticks = 0

Init == ServiceInit /\ ClockInit /\ HttpInit /\ ProbeInit

\* a service that is constructed and left alone while an HttpClient is exercised
ServiceAside ==
    /\ ServiceInit
    /\ config = [b \in {"heliusDas", "jupiter"} |-> NoPriority]

Composite == {"getWalletPortfolio", "getTokenData"}
Idle == \A t \in TopIds(frames) : Settled(frames[t])

\* The user overlaps up to MaxTop plain calls; a composite call (one that makes
\* nested calls) is made while no other call is in flight.
CanCall ==
    /\ calls < MaxCalls
    /\ Cardinality(TopIds(frames)) < MaxTop
    /\ FreeIds(frames) # {}
    /\ \A t \in TopIds(frames) : Settled(frames[t]) \/ frames[t].op \notin Composite

\* a call of one of the three plain fallback operations, up to its first await
CallLoopOp(op, subject) ==
    /\ CanCall
    /\ LET f == MinOf(FreeIds(frames))
           b == BeginLoopOp(op, subject, 0, "top", 0, cache)
       IN /\ frames' = [frames EXCEPT ![f] = b.frame]
          /\ cache' = b.cache
    /\ calls' = calls + 1
    /\ UNCHANGED <<clients, config, built, providers, objs, now, ticks, http, probe>>

getTokenPrice(mint) == CallLoopOp("getTokenPrice", mint)

getTokenMetadata(mint) == CallLoopOp("getTokenMetadata", mint)

getTokenBalances(address) == CallLoopOp("getTokenBalances", address)

\* the frame after its provider returned: cache.set(cacheKey, value, ttl); return value
Succeed(fr, value) ==
    [fr EXCEPT !.pc = "resolved", !.idx = 0, !.result = value,
               !.log = Append(@, ReturnEvent(providers[fr.idx]))]

\* provider.getTokenPrice(mint) resolves
ProviderReturnsPrice(f, priceUsd) ==
    /\ frames[f].pc = "awaitProvider"
    /\ frames[f].op = "getTokenPrice"
    /\ LET fr == frames[f]
           price == PriceValue(fr.subject, priceUsd, providers[fr.idx])
       IN /\ cache' = SimpleCacheSet(cache, CacheKey(fr.op, fr.subject), price, TtlOf(fr.op), now)
          /\ frames' = [frames EXCEPT ![f] = Succeed(fr, price)]
    /\ UNCHANGED <<clients, config, built, providers, objs, now, ticks, calls, http, probe>>

\* provider.getTokenMetadata(mint) resolves
ProviderReturnsMetadata(f) ==
    /\ frames[f].pc = "awaitProvider"
    /\ frames[f].op = "getTokenMetadata"
    /\ LET fr == frames[f]
           metadata == MetadataValue(fr.subject, providers[fr.idx])
       IN /\ cache' = SimpleCacheSet(cache, CacheKey(fr.op, fr.subject), metadata, TtlOf(fr.op), now)
          /\ frames' = [frames EXCEPT ![f] = Succeed(fr, metadata)]
    /\ UNCHANGED <<clients, config, built, providers, objs, now, ticks, calls, http, probe>>

\* provider.getTokenBalances(address) resolves with a new array
ProviderReturnsBalances(f, tokens) ==
    /\ frames[f].pc = "awaitProvider"
    /\ frames[f].op = "getTokenBalances"
    /\ ObjIds \ LiveObjs(cache, frames) # {}
    /\ LET fr == frames[f]
           o == MinOf(ObjIds \ LiveObjs(cache, frames))
           balances == [kind |-> "balances", tokens |-> o]
       IN /\ objs' = [objs EXCEPT ![o] = tokens]
          /\ cache' = SimpleCacheSet(cache, CacheKey(fr.op, fr.subject), balances, TtlOf(fr.op), now)
          /\ frames' = [frames EXCEPT ![f] = Succeed(fr, balances)]
    /\ UNCHANGED <<clients, config, built, providers, now, ticks, calls, http, probe>>

\* (mutant) only the last failure is kept in the error list
AfterThrowKeepsLast(fr, msg) ==
    LET name == providers[fr.idx]
        caught == [fr EXCEPT !.errors = <<ProviderError(name, msg)>>,
                             !.log = Append(@, ThrowEvent(name, msg))]
    IN LoopFrom(caught, fr.idx + 1)

\* (mutant) a provider that failed is given a second try before the loop moves on
AfterThrowTriesAgain(fr, msg) ==
    LET name == providers[fr.idx]
        caught == [fr EXCEPT !.errors = Append(@, ProviderError(name, msg)),
                             !.log = Append(@, ThrowEvent(name, msg))]
        tried == Cardinality({i \in DOMAIN fr.log : fr.log[i] = InvokeEvent(name)})
    IN LoopFrom(caught, IF tried < 2 THEN fr.idx ELSE fr.idx + 1)

\* the catch block of the loop, then the loop continued to its next await
AfterThrow(fr, msg) ==
    LET name == providers[fr.idx]
        caught == [fr EXCEPT !.errors = Append(@, ProviderError(name, msg)),
                             !.log = Append(@, ThrowEvent(name, msg))]
    IN LoopFrom(caught, fr.idx + 1)

\* (mutant) a call that failed on every provider caches its failure
ProviderThrowsCachesFailure(f, msg) ==
    /\ frames[f].pc = "awaitProvider"
    /\ frames[f].op # "getWalletPortfolio"
    /\ LET fr == AfterThrow(frames[f], <<msg>>)
       IN /\ frames' = [frames EXCEPT ![f] = IF fr.pc = "exhausted" THEN Reject(fr) ELSE fr]
          /\ cache' = IF fr.pc = "exhausted"
                      THEN SimpleCacheSet(cache, CacheKey(fr.op, fr.subject), Reject(fr).result,
                                          TtlOf(fr.op), now)
                      ELSE cache
    /\ UNCHANGED <<clients, config, built, providers, objs, now, ticks, calls, http, probe>>

\* the provider call of a plain fallback operation rejects
ProviderThrows(f, msg) ==
    /\ frames[f].pc = "awaitProvider"
    /\ frames[f].op # "getWalletPortfolio"
    /\ LET fr == AfterThrow(frames[f], <<msg>>)
       IN frames' = [frames EXCEPT ![f] = IF fr.pc = "exhausted" THEN Reject(fr) ELSE fr]
    /\ UNCHANGED <<clients, config, built, providers, cache, objs, now, ticks, calls, http, probe>>

----------------------------------------------------------------------------
(* getWalletPortfolio: direct retrieval, reconstruction, price enrichment *)

\* the synchronous start of a nested call in the smallest free activation
Spawn(fs, c, op, subject, parent, role, k) ==
    LET kid == MinOf(FreeIds(fs))
        b == BeginLoopOp(op, subject, parent, role, k, c)
    IN [frames |-> [fs EXCEPT ![kid] = b.frame], cache |-> b.cache]

\* `await this.getTokenBalances(address)` after the loop found no portfolio
Reconstruct(f, fr, c) ==
    /\ FreeIds(frames) \ {f} # {}
    /\ LET parked == [frames EXCEPT ![f] = [fr EXCEPT !.pc = "awaitBalances"]]
           w == Spawn(parked, c, "getTokenBalances", fr.subject, f, "bal", 0)
       IN /\ frames' = w.frames
          /\ cache' = w.cache

getWalletPortfolio(address) ==
    /\ CanCall
    /\ Idle
    /\ LET f == MinOf(FreeIds(frames))
           b == BeginLoopOp("getWalletPortfolio", address, 0, "top", 0, cache)
       IN IF b.frame.pc = "exhausted"
          THEN Reconstruct(f, b.frame, b.cache)
          ELSE /\ frames' = [frames EXCEPT ![f] = b.frame]
               /\ cache' = b.cache
    /\ calls' = calls + 1
    /\ UNCHANGED <<clients, config, built, providers, objs, now, ticks, http, probe>>

\* provider.getWalletPortfolio(address) rejects
ProviderThrowsPortfolio(f, msg) ==
    /\ frames[f].pc = "awaitProvider"
    /\ frames[f].op = "getWalletPortfolio"
    /\ LET fr == AfterThrow(frames[f], <<msg>>)
       IN IF fr.pc = "exhausted"
          THEN Reconstruct(f, fr, cache)
          ELSE /\ frames' = [frames EXCEPT ![f] = fr]
               /\ cache' = cache
    /\ UNCHANGED <<clients, config, built, providers, objs, now, ticks, calls, http, probe>>

\* (mutant) the portfolio is cached and returned without enrichment
BeginEnrichSkipped(fs, c, f, portfolio, path) ==
    [frames |-> [fs EXCEPT ![f].pc = "resolved", ![f].path = path, ![f].idx = 0,
                           ![f].result = portfolio],
     cache |-> SimpleCacheSet(c, CacheKey("getWalletPortfolio", portfolio.address), portfolio,
                              DEFAULT_CACHE_TTL, now)]

\* enrichPortfolioWithPrices up to `await this.getSolPrice()`
BeginEnrich(fs, c, f, portfolio, path) ==
    LET parked == [fs EXCEPT ![f].pc = "awaitSol", ![f].work = portfolio, ![f].path = path,
                             ![f].idx = 0]
    IN Spawn(parked, c, "getTokenPrice", solMint, f, "sol", 0)

\* provider.getWalletPortfolio(address) resolves; enrichment starts
ProviderReturnsPortfolio(f, solBalance, tokens, totalValueUsd) ==
    /\ frames[f].pc = "awaitProvider"
    /\ frames[f].op = "getWalletPortfolio"
    /\ ObjIds \ LiveObjs(cache, frames) # {}
    /\ FreeIds(frames) # {}
    /\ LET fr == frames[f]
           o == MinOf(ObjIds \ LiveObjs(cache, frames))
           portfolio == [kind |-> "portfolio", address |-> fr.subject, solBalance |-> solBalance,
                         tokens |-> o, totalValueUsd |-> totalValueUsd]
           returned == [frames EXCEPT ![f].log = Append(@, ReturnEvent(providers[fr.idx]))]
           w == BeginEnrich(returned, cache, f, portfolio, "direct")
       IN /\ objs' = [objs EXCEPT ![o] = tokens]
          /\ frames' = w.frames
          /\ cache' = w.cache
    /\ UNCHANGED <<clients, config, built, providers, now, ticks, calls, http, probe>>

\* (mutant) the basic portfolio claims a SOL balance
BasicPortfolioWithSol(address, balances) ==
    [kind |-> "portfolio", address |-> address, solBalance |-> 1,
     tokens |-> balances.tokens, totalValueUsd |-> 0]

\* `{ address, solBalance: 0, tokens: balances, totalValueUsd: 0 }`
BasicPortfolio(address, balances) ==
    [kind |-> "portfolio", address |-> address, solBalance |-> 0,
     tokens |-> balances.tokens, totalValueUsd |-> 0]

\* the nested getTokenBalances settled: build the basic portfolio and enrich it,
\* or add `fallback: ...` to the errors and throw
BalancesSettled(f) ==
    /\ frames[f].pc = "awaitBalances"
    /\ LET kid == Kid(frames, f, "bal")
           fr == frames[f]
           freed == [frames EXCEPT ![kid] = FreeFrame]
       IN /\ Settled(frames[kid])
          /\ IF frames[kid].pc = "resolved"
             THEN LET portfolio == BasicPortfolio(fr.subject, frames[kid].result)
                      w == BeginEnrich([freed EXCEPT ![f].nested = frames[kid].log],
                                       cache, f, portfolio, "reconstructed")
                  IN /\ frames' = w.frames
                     /\ cache' = w.cache
             ELSE /\ frames' = [freed EXCEPT ![f] =
                        Reject([fr EXCEPT !.nested = frames[kid].log,
                                          !.errors = Append(@, ProviderError("fallback", frames[kid].result.message))])]
                  /\ cache' = cache
    /\ UNCHANGED <<clients, config, built, providers, objs, now, ticks, calls, http, probe>>

\* portfolio.tokens.map(async token => ...): every callback runs up to its await
RECURSIVE SpawnTokens(_, _, _, _, _)
SpawnTokens(fs, c, f, tokens, k) ==
    IF k > Len(tokens) THEN [frames |-> fs, cache |-> c]
    ELSE LET w == Spawn(fs, c, "getTokenPrice", tokens[k].mint, f, "tok", k)
         IN SpawnTokens(w.frames, w.cache, f, tokens, k + 1)

\* (mutant) a failed SOL price fetch falls back to an assumed price
getSolPriceAssumed(fr) ==
    IF fr.pc = "resolved" THEN fr.result.priceUsd ELSE 150

\* getSolPrice, given the settled getTokenPrice(solMint): its price, or 0 when
\* it failed
getSolPrice(fr) ==
    IF fr.pc = "resolved" THEN fr.result.priceUsd ELSE 0

\* getSolPrice settled; the per-token price fetches start
SolPriceSettled(f) ==
    /\ frames[f].pc = "awaitSol"
    /\ LET kid == Kid(frames, f, "sol")
           fr == frames[f]
           solPrice == getSolPrice(frames[kid])
           tokens == objs[fr.work.tokens]
           freed == [frames EXCEPT ![kid] = FreeFrame,
                                   ![f].pc = "awaitTokens",
                                   ![f].total = fr.work.solBalance * solPrice,
                                   ![f].fetched = Fetched(@, 0, frames[kid].result)]
       IN /\ Settled(frames[kid])
          /\ Cardinality(FreeIds(freed)) >= Len(tokens)
          /\ LET w == SpawnTokens(freed, cache, f, tokens, 1)
             IN /\ frames' = w.frames
                /\ cache' = w.cache
    /\ UNCHANGED <<clients, config, built, providers, objs, now, ticks, calls, http, probe>>

\* (mutant) only a token that has tokenInfo counts towards the total
tokenValueUsdOnlyWithInfo(token, price) ==
    IF token.hasInfo THEN token.uiAmount * price.priceUsd ELSE 0

\* const tokenValueUsd = token.uiAmount * price.priceUsd
tokenValueUsd(token, price) ==
    token.uiAmount * price.priceUsd

\* the rest of one map callback: write the price into token.tokenInfo, add the
\* token's value to the total; a failed fetch is only logged
TokenPriceSettled(f, kid) ==
    /\ frames[f].pc = "awaitTokens"
    /\ kid \in Kids(frames, f)
    /\ Settled(frames[kid])
    /\ LET fr == frames[f]
           o == fr.work.tokens
           k == frames[kid].k
           token == objs[o][k]
           price == frames[kid].result
       IN IF frames[kid].pc = "resolved"
          THEN /\ objs' = IF token.hasInfo
                          THEN [objs EXCEPT ![o][k].priceUsd = price.priceUsd,
                                            ![o][k].priceChangePercentage24h = price.priceChangePercentage24h]
                          ELSE objs
               /\ frames' = [frames EXCEPT ![kid] = FreeFrame,
                                           ![f].total = @ + tokenValueUsd(token, price),
                                           ![f].fetched = Fetched(@, k, price)]
          ELSE /\ objs' = objs
               /\ frames' = [frames EXCEPT ![kid] = FreeFrame,
                                           ![f].fetched = Fetched(@, k, price)]
    /\ UNCHANGED <<clients, config, built, providers, cache, now, ticks, calls, http, probe>>

\* Promise.all resolved: portfolio.totalValueUsd = totalValueUsd; cache.set; return
EnrichDone(f) ==
    /\ frames[f].pc = "awaitTokens"
    /\ Kids(frames, f) = {}
    /\ LET fr == frames[f]
           portfolio == [fr.work EXCEPT !.totalValueUsd = fr.total]
       IN /\ cache' = SimpleCacheSet(cache, CacheKey(fr.op, fr.subject), portfolio, TtlOf(fr.op), now)
          /\ frames' = [frames EXCEPT ![f] = [fr EXCEPT !.pc = "resolved", !.work = None,
                                                        !.result = portfolio]]
    /\ UNCHANGED <<clients, config, built, providers, objs, now, ticks, calls, http, probe>>

----------------------------------------------------------------------------
(* getTokenData *)

\* (mutant) the placeholder carries a made-up name and symbol
placeholderNamed(mint) ==
    [kind |-> "metadata", mint |-> mint, name |-> "Unknown", symbol |-> "UNKNOWN", decimals |-> 0,
     priceUsd |-> Unset, priceChangePercentage24h |-> Unset]

\* `{ mint, name: '', symbol: '', decimals: 0 }`
placeholder(mint) ==
    [kind |-> "metadata", mint |-> mint, name |-> "", symbol |-> "", decimals |-> 0,
     priceUsd |-> Unset, priceChangePercentage24h |-> Unset]

getTokenData(mint) ==
    /\ CanCall
    /\ Idle
    /\ LET f == MinOf(FreeIds(frames))
           base == [FreeFrame EXCEPT !.op = "getTokenData", !.subject = mint, !.role = "top"]
           key == CacheKey("getTokenData", mint)
           cached == SimpleCacheGet(cache, key, now)
       IN IF ~isValidSolanaAddress(mint)
          THEN /\ frames' = [frames EXCEPT ![f] =
                     [base EXCEPT !.pc = "rejected", !.result = ValidationError("getTokenData")]]
               /\ cache' = cache
          ELSE IF Truthy(cached)
          THEN /\ frames' = [frames EXCEPT ![f] =
                     [base EXCEPT !.pc = "resolved", !.hit = TRUE, !.result = cached]]
               /\ cache' = cache
          ELSE /\ Cardinality(FreeIds(frames)) >= 3
               /\ LET parked == [frames EXCEPT ![f] = [base EXCEPT !.pc = "awaitBoth"]]
                      m == Spawn(parked, SimpleCacheAfterGet(cache, key, now),
                                 "getTokenMetadata", mint, f, "meta", 0)
                      p == Spawn(m.frames, m.cache, "getTokenPrice", mint, f, "price", 0)
                  IN /\ frames' = p.frames
                     /\ cache' = p.cache
    /\ calls' = calls + 1
    /\ UNCHANGED <<clients, config, built, providers, objs, now, ticks, http, probe>>

\* (mutant) a combination made of the placeholder and no price is not cached
DataSettledSkipsPlaceholder(f) ==
    /\ frames[f].pc = "awaitBoth"
    /\ LET m == Kid(frames, f, "meta")
           p == Kid(frames, f, "price")
           fr == frames[f]
           metadata == IF frames[m].pc = "resolved" THEN frames[m].result ELSE placeholder(fr.subject)
           tokenData == IF frames[p].pc = "resolved"
                        THEN [metadata EXCEPT !.priceUsd = frames[p].result.priceUsd,
                                              !.priceChangePercentage24h =
                                                  frames[p].result.priceChangePercentage24h]
                        ELSE [metadata EXCEPT !.priceUsd = Unset,
                                              !.priceChangePercentage24h = Unset]
       IN /\ Settled(frames[m])
          /\ Settled(frames[p])
          /\ cache' = IF frames[m].pc = "rejected" /\ frames[p].pc = "rejected"
                      THEN cache
                      ELSE SimpleCacheSet(cache, CacheKey(fr.op, fr.subject), tokenData, TtlOf(fr.op), now)
          /\ frames' = [frames EXCEPT ![m] = FreeFrame, ![p] = FreeFrame,
                                      ![f] = [fr EXCEPT !.pc = "resolved", !.result = tokenData]]
    /\ UNCHANGED <<clients, config, built, providers, objs, now, ticks, calls, http, probe>>

\* both promises settled: combine metadata (or the placeholder) with the price
\* (or null), cache the combination with the price TTL, return it
DataSettled(f) ==
    /\ frames[f].pc = "awaitBoth"
    /\ LET m == Kid(frames, f, "meta")
           p == Kid(frames, f, "price")
           fr == frames[f]
           metadata == IF frames[m].pc = "resolved" THEN frames[m].result ELSE placeholder(fr.subject)
           tokenData == IF frames[p].pc = "resolved"
                        THEN [metadata EXCEPT !.priceUsd = frames[p].result.priceUsd,
                                              !.priceChangePercentage24h =
                                                  frames[p].result.priceChangePercentage24h]
                        ELSE [metadata EXCEPT !.priceUsd = Unset,
                                              !.priceChangePercentage24h = Unset]
       IN /\ Settled(frames[m])
          /\ Settled(frames[p])
          /\ cache' = SimpleCacheSet(cache, CacheKey(fr.op, fr.subject), tokenData, TtlOf(fr.op), now)
          /\ frames' = [frames EXCEPT ![m] = FreeFrame, ![p] = FreeFrame,
                                      ![f] = [fr EXCEPT !.pc = "resolved", !.result = tokenData]]
    /\ UNCHANGED <<clients, config, built, providers, objs, now, ticks, calls, http, probe>>

\* the caller of a settled top-level call takes its outcome
Release(f) ==
    /\ frames[f].parent = 0
    /\ Settled(frames[f])
    /\ frames' = [frames EXCEPT ![f] = FreeFrame]
    /\ UNCHANGED <<clients, config, built, providers, cache, objs, now, ticks, calls, http, probe>>

\* time passes
Deltas == {PRICE_CACHE_TTL, DEFAULT_CACHE_TTL + 1}

Tick(d) ==
    /\ ticks < MaxTicks
    /\ now' = now + d
    /\ ticks' = ticks + 1
    /\ UNCHANGED <<clients, config, built, providers, cache, objs, frames, calls, http, probe>>

Mints == {"MintA", "invalid-mint"}
Wallets == {"Wallet1", "invalid-mint"}

Next ==
    \/ \E mint \in Mints : getTokenPrice(mint)
    \/ \E mint \in Mints : getTokenMetadata(mint)
    \/ \E address \in Wallets : getTokenBalances(address)
    \/ \E f \in FrameIds, priceUsd \in Prices : ProviderReturnsPrice(f, priceUsd)
    \/ \E f \in FrameIds : ProviderReturnsMetadata(f)
    \/ \E f \in FrameIds, tokens \in TokenLists : ProviderReturnsBalances(f, tokens)
    \/ \E f \in FrameIds, msg \in ErrorMessages : ProviderThrows(f, msg)
    \/ \E address \in Wallets : getWalletPortfolio(address)
    \/ \E f \in FrameIds, msg \in ErrorMessages : ProviderThrowsPortfolio(f, msg)
    \/ \E f \in FrameIds, solBalance \in SolBalances, tokens \in TokenLists, total \in ProviderTotals :
          ProviderReturnsPortfolio(f, solBalance, tokens, total)
    \/ \E f \in FrameIds : BalancesSettled(f)
    \/ \E f \in FrameIds : SolPriceSettled(f)
    \/ \E f, kid \in FrameIds : TokenPriceSettled(f, kid)
    \/ \E f \in FrameIds : EnrichDone(f)
    \/ \E mint \in Mints : getTokenData(mint)
    \/ \E f \in FrameIds : DataSettled(f)
    \/ \E f \in FrameIds : Release(f)
    \/ \E d \in Deltas : Tick(d)

Spec == Init /\ [][Next]_vars

----------------------------------------------------------------------------
(* TokenService with providers that always answer and an event loop that runs
   every continuation that is ready *)

\* the promise of the provider call activation f awaits settles, either way
ProviderCompletes(f) ==
    \/ \E priceUsd \in Prices : ProviderReturnsPrice(f, priceUsd)
    \/ ProviderReturnsMetadata(f)
    \/ \E tokens \in TokenLists : ProviderReturnsBalances(f, tokens)
    \/ \E msg \in ErrorMessages : ProviderThrows(f, msg)
    \/ \E msg \in ErrorMessages : ProviderThrowsPortfolio(f, msg)
    \/ \E solBalance \in SolBalances, tokens \in TokenLists, total \in ProviderTotals :
          ProviderReturnsPortfolio(f, solBalance, tokens, total)

\* the continuation of activation f after an await on nested calls
Continues(f) ==
    \/ BalancesSettled(f)
    \/ SolPriceSettled(f)
    \/ \E kid \in FrameIds : TokenPriceSettled(f, kid)
    \/ EnrichDone(f)
    \/ DataSettled(f)

Fairness ==
    \A f \in FrameIds : WF_vars(ProviderCompletes(f)) /\ WF_vars(Continues(f))

InitLive == Init /\ config = [b \in {"heliusDas", "jupiter"} |-> NoPriority]

\* a call of any of the five public operations
Calls ==
    \/ \E mint \in Mints : getTokenPrice(mint)
    \/ \E mint \in Mints : getTokenMetadata(mint)
    \/ \E address \in Wallets : getTokenBalances(address)
    \/ \E address \in Wallets : getWalletPortfolio(address)
    \/ \E mint \in Mints : getTokenData(mint)

\* the user awaits each call before making the next one; the calls follow each
\* other within the life of the cache entries
NextLive ==
    \/ Idle /\ Calls
    \/ \E f \in FrameIds : ProviderCompletes(f)
    \/ \E f \in FrameIds : Continues(f)
    \/ \E f \in FrameIds : Release(f)

SpecLive == InitLive /\ [][NextLive]_vars /\ Fairness

----------------------------------------------------------------------------
(* TokenService over providers built on HttpClient: every provider call goes
   through the circuit breaker of the provider's own client *)

\* (mutant) every client consults and updates one breaker
BreakerOfShared(name) == "jupiter"

\* `this.client = new JupiterClient(config)`: the breaker a provider's calls go
\* through is the one of the client the provider constructed
BreakerOf(name) == name

\* a breaker after n failed requests at time 0
RECURSIVE Failed(_)
Failed(n) ==
    IF n = 0 THEN NewCircuitBreaker(DefaultThreshold, DefaultResetTimeout)
    ELSE recordFailure(Failed(n - 1), 0)

\* the clients have been used before: none, threshold - 1 or threshold failures
UsedBreakers == {Failed(0), Failed(DefaultThreshold - 1), Failed(DefaultThreshold)}

\* provider.getX(mint) up to its first await, for the activation that has just
\* invoked it: request() consults the breaker of the provider's client
Gate(fr, bs) ==
    IF fr.pc # "awaitProvider" THEN [frame |-> [fr EXCEPT !.refused = FALSE], breakers |-> bs]
    ELSE LET b == BreakerOf(providers[fr.idx])
             gate == canRequest(bs[b], now)
         IN [frame |-> [fr EXCEPT !.refused = ~gate.value],
             breakers |-> [bs EXCEPT ![b] = gate.breaker]]

\* the catch block of the loop and the loop up to the next await, the next
\* provider's gate included, or up to the final throw
Thrown(fr, msg, bs) ==
    LET g == Gate(AfterThrow(fr, msg), bs)
    IN [frame |-> IF g.frame.pc = "exhausted" THEN Reject(g.frame) ELSE g.frame,
        breakers |-> g.breakers]

StackOps == {"getTokenPrice", "getTokenMetadata"}

\* a call of getTokenPrice or getTokenMetadata, up to its first await
StackCall(op, mint) ==
    /\ CanCall
    /\ LET f == MinOf(FreeIds(frames))
           b == BeginLoopOp(op, mint, 0, "top", 0, cache)
           g == Gate(b.frame, breakers)
       IN /\ frames' = [frames EXCEPT ![f] = g.frame]
          /\ cache' = b.cache
          /\ breakers' = g.breakers
    /\ calls' = calls + 1
    /\ UNCHANGED <<config, built, providers, objs, now, ticks, http, probe>>

\* the activation awaits a request its provider's client admitted
Admitted(f) ==
    /\ frames[f].pc = "awaitProvider"
    /\ frames[f].op \in StackOps
    /\ ~frames[f].refused

\* the request succeeds (recordSuccess) and the provider returns a price
ClientReturnsPrice(f, priceUsd) ==
    /\ Admitted(f)
    /\ frames[f].op = "getTokenPrice"
    /\ LET fr == frames[f]
           name == providers[fr.idx]
           price == PriceValue(fr.subject, priceUsd, name)
       IN /\ breakers' = [breakers EXCEPT ![BreakerOf(name)] = recordSuccess(@)]
          /\ cache' = SimpleCacheSet(cache, CacheKey(fr.op, fr.subject), price, TtlOf(fr.op), now)
          /\ frames' = [frames EXCEPT ![f] = Succeed(fr, price)]
    /\ UNCHANGED <<config, built, providers, objs, now, ticks, calls, http, probe>>

\* the request succeeds (recordSuccess) and the provider returns metadata
ClientReturnsMetadata(f) ==
    /\ Admitted(f)
    /\ frames[f].op = "getTokenMetadata"
    /\ LET fr == frames[f]
           name == providers[fr.idx]
           metadata == MetadataValue(fr.subject, name)
       IN /\ breakers' = [breakers EXCEPT ![BreakerOf(name)] = recordSuccess(@)]
          /\ cache' = SimpleCacheSet(cache, CacheKey(fr.op, fr.subject), metadata, TtlOf(fr.op), now)
          /\ frames' = [frames EXCEPT ![f] = Succeed(fr, metadata)]
    /\ UNCHANGED <<config, built, providers, objs, now, ticks, calls, http, probe>>

\* the request succeeds (recordSuccess) but the reply holds no price: the
\* provider throws `Price data not available for token ${mint}`
ClientReturnsNoData(f) ==
    /\ Admitted(f)
    /\ frames[f].op = "getTokenPrice"
    /\ LET fr == frames[f]
           name == providers[fr.idx]
           t == Thrown(fr, <<"Price data not available for token ", fr.subject>>,
                       [breakers EXCEPT ![BreakerOf(name)] = recordSuccess(@)])
       IN /\ frames' = [frames EXCEPT ![f] = t.frame]
          /\ breakers' = t.breakers
    /\ UNCHANGED <<config, built, providers, cache, objs, now, ticks, calls, http, probe>>

\* the request fails on its last attempt: one recordFailure, then the error of
\* the outer catch of request passes through the provider to the loop
ClientFails(f, status) ==
    /\ Admitted(f)
    /\ LET fr == frames[f]
           name == providers[fr.idx]
           t == Thrown(fr, RequestFailed(handleAxiosError(status)).message,
                       [breakers EXCEPT ![BreakerOf(name)] = recordFailure(@, now)])
       IN /\ frames' = [frames EXCEPT ![f] = t.frame]
          /\ breakers' = t.breakers
    /\ UNCHANGED <<config, built, providers, cache, objs, now, ticks, calls, http, probe>>

\* (mutant) the refusal of a client ends the call
ClientRefusesAborts(f) ==
    /\ frames[f].pc = "awaitProvider"
    /\ frames[f].refused
    /\ frames' = [frames EXCEPT ![f] = [@ EXCEPT !.pc = "rejected", !.idx = 0, !.refused = FALSE,
                                                 !.result = PlainError(CircuitOpenError.message)]]
    /\ UNCHANGED <<config, built, providers, cache, objs, now, ticks, calls, http, probe, clients>>

\* the promise of a provider whose client refused the request rejects with
\* `Circuit breaker is open`
ClientRefuses(f) ==
    /\ frames[f].pc = "awaitProvider"
    /\ frames[f].refused
    /\ LET t == Thrown(frames[f], CircuitOpenError.message, breakers)
       IN /\ frames' = [frames EXCEPT ![f] = t.frame]
          /\ breakers' = t.breakers
    /\ UNCHANGED <<config, built, providers, cache, objs, now, ticks, calls, http, probe>>

StackStatuses == {500}

StackConfigs ==
    { [b \in {"jupiter", "birdeye"} |-> NoPriority],
      [b \in {"jupiter", "birdeye"} |-> IF b = "jupiter" THEN 2 ELSE 1] }

InitStack ==
    /\ config \in StackConfigs
    /\ built = Constructed
    /\ providers = Construct(config)
    /\ cache = [key \in {} |-> None]
    /\ objs = [o \in ObjIds |-> <<>>]
    /\ frames = [f \in FrameIds |-> FreeFrame]
    /\ calls = 0
    /\ ClockInit
    /\ ProbeInit
    /\ breaker = NewCircuitBreaker(DefaultThreshold, DefaultResetTimeout)
    /\ ret = NoCall
    /\ streak = 0
    /\ reqs = [r \in ReqIds |-> IdleReq]
    /\ maxRetries = DefaultMaxRetries
    /\ breakers \in [HttpBacked -> UsedBreakers]
    /\ \A name \in HttpBacked :
          (\A i \in 1..Len(providers) : providers[i] # name) => breakers[name] = Failed(0)

NextStack ==
    \/ \E op \in StackOps, mint \in Mints : StackCall(op, mint)
    \/ \E f \in FrameIds, priceUsd \in Prices : ClientReturnsPrice(f, priceUsd)
    \/ \E f \in FrameIds : ClientReturnsMetadata(f)
    \/ \E f \in FrameIds : ClientReturnsNoData(f)
    \/ \E f \in FrameIds, status \in StackStatuses : ClientFails(f, status)
    \/ \E f \in FrameIds : ClientRefuses(f)
    \/ \E f \in FrameIds : Release(f)
    \/ \E d \in Deltas : Tick(d)

SpecStack == InitStack /\ [][NextStack]_vars

----------------------------------------------------------------------------
(* The constructor of TokenService, applied to any configuration *)

ExplicitPriorities == {7}

\* every set of provider blocks, each block with or without a priority of its
\* own, with or without cacheTtl
WithCacheTtl(cfg) ==
    [b \in DOMAIN cfg \cup {"cacheTtl"} |-> IF b = "cacheTtl" THEN ConfiguredCacheTtl ELSE cfg[b]]

CtorConfigs ==
    LET blocks == UNION { [S -> {NoPriority} \cup ExplicitPriorities] : S \in SUBSET DocumentedBlocks }
    IN blocks \cup {WithCacheTtl(cfg) : cfg \in blocks}

InitCtor ==
    /\ config \in CtorConfigs
    /\ built = NotConstructed
    /\ providers = <<>>
    /\ cache = [key \in {} |-> None]
    /\ objs = [o \in ObjIds |-> <<>>]
    /\ frames = [f \in FrameIds |-> FreeFrame]
    /\ calls = 0
    /\ ClockInit
    /\ HttpInit
    /\ ProbeInit

\* new TokenService(config)
NewTokenService ==
    /\ built = NotConstructed
    /\ LET outcome == TokenServiceConstructor(config)
       IN /\ built' = outcome.built
          /\ providers' = outcome.providers
    /\ UNCHANGED <<clients, config, cache, objs, frames, calls, now, ticks, http, probe>>

NextCtor == NewTokenService

SpecCtor == InitCtor /\ [][NextCtor]_vars

----------------------------------------------------------------------------
(* The CircuitBreaker class on its own, driven by any caller *)

InitCB ==
    /\ ServiceAside
    /\ ProbeInit
    /\ ClockInit
    /\ ClientsInit
    /\ breaker \in {NewCircuitBreaker(threshold, resetTimeout) :
                        threshold \in Thresholds, resetTimeout \in ResetTimeouts}
    /\ ret = NoCall
    /\ streak = 0
    /\ reqs = [r \in ReqIds |-> IdleReq]
    /\ maxRetries = DefaultMaxRetries

NextCB ==
    \/ CallRecordSuccess
    \/ CallRecordFailure
    \/ CallCanRequest
    \/ \E d \in {1, breaker.resetTimeout} : Elapse(d)

SpecCB == InitCB /\ [][NextCB]_vars

----------------------------------------------------------------------------
(* An HttpClient and its private CircuitBreaker *)

InitHttp ==
    /\ ServiceAside
    /\ ProbeInit
    /\ ClockInit
    /\ ClientsInit
    /\ breaker = NewCircuitBreaker(DefaultThreshold, DefaultResetTimeout)
    /\ ret = NoCall
    /\ streak = 0
    /\ reqs = [r \in ReqIds |-> IdleReq]
    /\ maxRetries \in MaxRetriesChoices

NextHttp ==
    \/ \E r \in ReqIds : request(r)
    \/ \E r \in ReqIds : AttemptSucceeds(r)
    \/ \E r \in ReqIds, status \in Statuses : AttemptFails(r, status)
    \/ \E r \in ReqIds : RetryAttempt(r)
    \/ \E r \in ReqIds : Settle(r)
    \/ \E d \in {1, breaker.resetTimeout} : Elapse(d)

SpecHttp == InitHttp /\ [][NextHttp]_vars

----------------------------------------------------------------------------
(* A SimpleCache exercised directly *)

InitCache == ServiceAside /\ ClockInit /\ HttpInit /\ ProbeInit

NextCache ==
    \/ \E key \in CacheKeys, value \in CacheValues, ttlMs \in Ttls : CacheSet(key, value, ttlMs)
    \/ \E key \in CacheKeys : CacheGet(key)
    \/ \E key \in CacheKeys : CacheDelete(key)
    \/ CacheClear
    \/ \E d \in Ttls : Elapse(d)

SpecCache == InitCache /\ [][NextCache]_vars

----------------------------------------------------------------------------
(* Properties of the fallback loops *)

Pos(name) == CHOOSE i \in 1..Len(providers) : providers[i] = name

Active == {f \in FrameIds : frames[f].pc # "free"}
Loops == {f \in Active : frames[f].op \in LoopOps}

Invokes(log) == {j \in 1..Len(log) : log[j].ev = "invoke"}
Throws(log) == {j \in 1..Len(log) : log[j].ev = "return" /\ ~log[j].ok}
Successes(log) == {j \in 1..Len(log) : log[j].ev = "return" /\ log[j].ok}

\* the positions, in the provider list, of the providers that implement op
CapablePositions(op) == {i \in 1..Len(providers) : op \in Capabilities(providers[i])}

\* part occurs in msg as a run of consecutive pieces
Contains(msg, part) ==
    \E i \in 1..(Len(msg) - Len(part) + 1) : SubSeq(msg, i, i + Len(part) - 1) = part

\* C1: in every fallback loop the providers are invoked one at a time and in
\* ascending position of the sorted list: an invocation is always preceded by the
\* return of the previous one, which was of a provider earlier in the list.
C1_SequentialInPriorityOrder ==
    \A f \in Loops :
        LET log == frames[f].log
        IN /\ \A j \in 1..Len(log) :
                IF j % 2 = 1
                THEN /\ log[j].ev = "invoke"
                     /\ j > 1 => Pos(log[j - 2].provider) < Pos(log[j].provider)
                ELSE /\ log[j].ev = "return"
                     /\ log[j].provider = log[j - 1].provider
           /\ (frames[f].pc = "awaitProvider") <=> (Len(log) % 2 = 1)

C1_Witness ==
    \E f \in Loops :
        /\ frames[f].pc = "awaitProvider"
        /\ Len(frames[f].log) = 3
        /\ frames[f].log[3].provider = providers[2]

\* C2: when a provider call succeeds in a fallback loop, every provider before it
\* in the list that implements the operation was invoked and failed, nothing is
\* invoked after it, and the call resolves with that provider's result.
C2_FirstSuccessWins ==
    \A f \in Loops :
        LET fr == frames[f]
            log == fr.log
        IN /\ \A j \in Successes(log) :
                /\ j = Len(log)
                /\ \A i \in CapablePositions(fr.op) :
                      i < Pos(log[j].provider) =>
                          \E q \in Throws(log) : log[q].provider = providers[i]
                /\ fr.pc \notin {"rejected", "awaitProvider", "awaitBalances"}
                /\ fr.pc = "resolved" =>
                      /\ ~fr.hit
                      /\ fr.op = "getTokenPrice" => fr.result.provider = log[j].provider
                      /\ fr.op = "getWalletPortfolio" => fr.path = "direct"
           /\ (fr.pc = "resolved" /\ ~fr.hit /\ fr.op # "getWalletPortfolio") => Successes(log) # {}

C2_Witness ==
    \E f \in Loops :
        /\ frames[f].pc = "resolved"
        /\ frames[f].op = "getTokenPrice"
        /\ Len(frames[f].log) = 4
        /\ ~frames[f].log[2].ok
        /\ frames[f].result.provider = providers[2]

\* C3: a call whose key holds an unexpired entry resolves at once with exactly
\* that entry, and invokes no provider and starts no nested call.
C3_CacheHitShortCircuits ==
    [][\A f \in FrameIds :
          (/\ frames[f].pc = "free"
           /\ frames'[f].pc # "free"
           /\ frames'[f].subject \in ValidAddresses
           /\ CacheKey(frames'[f].op, frames'[f].subject) \in DOMAIN cache
           /\ now <= cache[CacheKey(frames'[f].op, frames'[f].subject)].expiry)
          => /\ frames'[f].pc = "resolved"
             /\ frames'[f].result = cache[CacheKey(frames'[f].op, frames'[f].subject)].value
             /\ frames'[f].log = <<>>
             /\ Kids(frames', f) = {}]_vars

C3_Witness ==
    \E f \in Active :
        /\ frames[f].hit
        /\ frames[f].parent = 0
        /\ frames[f].op = "getTokenData"
        /\ frames[f].pc = "resolved"

\* C4: a call with an invalid address rejects with ValidationError, and that
\* step invokes no provider, starts no nested call and leaves the cache as it was.
C4_InvalidAddressRejected ==
    [][\A f \in FrameIds :
          (/\ frames[f].pc = "free"
           /\ frames'[f].pc # "free"
           /\ frames'[f].parent = 0
           /\ frames'[f].subject \in InvalidAddresses)
          => /\ frames'[f].pc = "rejected"
             /\ frames'[f].result.name = "ValidationError"
             /\ frames'[f].log = <<>>
             /\ cache' = cache
             /\ \A g \in FrameIds \ {f} : frames'[g] = frames[g]]_vars

C4_Witness ==
    \E f \in Active :
        /\ frames[f].pc = "rejected"
        /\ frames[f].subject \in InvalidAddresses
        /\ frames[f].op = "getWalletPortfolio"
        /\ frames[f].result.name = "ValidationError"

\* a fallback loop that has ended with every invoked provider having failed
AllFailed(f) ==
    /\ frames[f].op \in LoopOps
    /\ frames[f].subject \in ValidAddresses
    /\ ~frames[f].hit
    /\ frames[f].pc # "awaitProvider"
    /\ Successes(frames[f].log) = {}

NamesEveryFailure(f) ==
    /\ frames[f].result.kind = "error"
    /\ frames[f].result.name = "Error"
    /\ \A j \in Throws(frames[f].log) :
          Contains(frames[f].result.message,
                   ProviderError(frames[f].log[j].provider, frames[f].log[j].msg))
    /\ \A j \in Throws(frames[f].nested) :
          Contains(frames[f].result.message,
                   ProviderError(frames[f].nested[j].provider, frames[f].nested[j].msg))

\* C5 as stated: whenever every provider call of a fallback loop has failed, the
\* operation rejects, with a message naming every provider and its failure.
C5_AsStated ==
    \A f \in Active :
        (AllFailed(f) /\ Settled(frames[f])) =>
            (frames[f].pc = "rejected" /\ NamesEveryFailure(f))

\* C5 amended: getTokenPrice, getTokenMetadata and getTokenBalances reject when
\* every provider call has failed; getWalletPortfolio rejects when, in addition,
\* its reconstruction from getTokenBalances has failed. The message of the error
\* names every invoked provider with its own failure message.
C5_TotalFailureNamesEveryProvider ==
    \A f \in Active :
        AllFailed(f) =>
            /\ frames[f].op # "getWalletPortfolio" =>
                  (frames[f].pc = "rejected" /\ NamesEveryFailure(f))
            /\ (frames[f].op = "getWalletPortfolio" /\ Settled(frames[f])) =>
                  IF frames[f].path = "reconstructed"
                  THEN frames[f].pc = "resolved"
                  ELSE /\ frames[f].pc = "rejected"
                       /\ NamesEveryFailure(f)
                       /\ Contains(frames[f].result.message, <<"fallback", ": ", "Failed to get ">>)

C5_Witness ==
    \E f \in Active :
        /\ frames[f].pc = "rejected"
        /\ frames[f].op = "getTokenPrice"
        /\ Cardinality(Throws(frames[f].log)) = 2

\* C6: a provider failure is always followed by the invocation of the next provider
\* that implements the operation; a fallback operation rejects only with the
\* ValidationError of an invalid address, raised before any provider is invoked,
\* or with the 'Failed to get ...' error, raised after every such provider failed.
C6_FailureNeverEscapes ==
    \A f \in Loops :
        LET fr == frames[f]
            log == fr.log
        IN /\ \A j \in Throws(log) :
                NextCapable(fr.op, Pos(log[j].provider) + 1) # 0 =>
                    /\ Len(log) > j
                    /\ log[j + 1] = InvokeEvent(providers[NextCapable(fr.op, Pos(log[j].provider) + 1)])
           /\ fr.pc = "rejected" =>
                \/ /\ fr.result.name = "ValidationError"
                   /\ fr.subject \in InvalidAddresses
                   /\ log = <<>>
                \/ /\ fr.result.name = "Error"
                   /\ fr.subject \in ValidAddresses
                   /\ SubSeq(fr.result.message, 1, 5) =
                         <<"Failed to get ", What(fr.op), " for ", fr.subject, ": ">>
                   /\ \A i \in CapablePositions(fr.op) :
                         \E q \in Throws(log) : log[q].provider = providers[i]

C6_Witness ==
    \E f \in Loops :
        /\ frames[f].pc = "rejected"
        /\ frames[f].op = "getTokenMetadata"
        /\ frames[f].result.name = "Error"
        /\ Cardinality(Throws(frames[f].log)) = 2

----------------------------------------------------------------------------
(* Properties of the CircuitBreaker *)

\* C7: the circuit opens when, and only when, the failures recorded since the
\* last recorded success reach threshold: the circuit is never open with fewer,
\* recordFailure returns true exactly when that count has reached threshold, and
\* a canRequest() that follows such a recordFailure within resetTimeout returns
\* false.
C7_OpensExactlyAtThreshold ==
    /\ [](breaker.isOpen => streak >= breaker.threshold)
    /\ [](ret.op = "recordFailure" => (ret.value <=> streak >= breaker.threshold))
    /\ [][(/\ ret.op = "recordFailure"
           /\ ret.value
           /\ ret'.op = "canRequest"
           /\ now - breaker.lastFailureTime <= breaker.resetTimeout) => ~ret'.value]_vars

C7_Witness ==
    /\ breaker.threshold = DefaultThreshold
    /\ streak = breaker.threshold
    /\ breaker.isOpen
    /\ ret.op = "canRequest"
    /\ ~ret.value

----------------------------------------------------------------------------
(* Properties of HttpClient.request *)

\* C9: a request issued while the circuit is open and resetTimeout has not
\* elapsed since the last failure is rejected in the same step with the
\* 'Circuit breaker is open' error, and no HTTP attempt is made for it.
C9_OpenCircuitRejectsWithoutHttpCall ==
    [][\A r \in ReqIds :
          (/\ reqs[r].pc = "idle"
           /\ reqs'[r].pc # "idle"
           /\ breaker.isOpen
           /\ now - breaker.lastFailureTime <= breaker.resetTimeout) =>
              /\ reqs'[r].pc = "rejected"
              /\ reqs'[r].error.name = "ApiRequestError"
              /\ Contains(reqs'[r].error.message, <<"Circuit breaker is open">>)
              /\ reqs'[r].attempts = 0
              /\ breaker' = breaker]_vars

C9_Witness ==
    \E r \in ReqIds :
        /\ reqs[r].pc = "rejected"
        /\ reqs[r].error = CircuitOpenError
        /\ reqs[r].attempts = 0
        /\ breaker.isOpen

\* C10: after the reset timeout has elapsed on an open circuit exactly one
\* attempt is admitted as the half-open trial: while the request that closed the
\* circuit is pending, no other request has passed the gate and that request
\* has made no second HTTP attempt.
C10_SingleHalfOpenTrial ==
    \A r \in ReqIds :
        Pending(reqs[r]) =>
            /\ ~reqs[r].overlapped
            /\ reqs[r].trial => reqs[r].attempts <= 1

C12_OpenUntilResetTimeout ==
    /\ ~breaker.isOpen
    /\ [][(breaker.isOpen /\ ~breaker'.isOpen) =>
             now - breaker.lastFailureTime > breaker.resetTimeout]_vars

\* C13: a response with status 401, 403, 404 or 429 is never retried: the request
\* makes exactly one HTTP attempt and rejects with AuthenticationError (401, 403),
\* NotFoundError (404) or RateLimitError (429).
C13_ClientErrorsNotRetried ==
    \A r \in ReqIds :
        reqs[r].failure \in {401, 403, 404, 429} =>
            /\ reqs[r].attempts = 1
            /\ reqs[r].pc # "backoff"
            /\ reqs[r].pc = "rejected" =>
                  reqs[r].error.name = handleAxiosError(reqs[r].failure).name

\* C14: a request never makes more than maxRetries + 1 HTTP attempts; one whose
\* attempts all fail rejects after exactly maxRetries + 1 attempts; one of whose
\* attempts succeeds resolves at that attempt and makes no further attempt.
C14_AtMostMaxRetriesPlusOne ==
    /\ [](\A r \in ReqIds :
            /\ reqs[r].attempts <= maxRetries + 1
            /\ (reqs[r].pc = "rejected" /\ reqs[r].error # CircuitOpenError) =>
                  reqs[r].attempts = maxRetries + 1
            /\ reqs[r].pc = "backoff" => reqs[r].attempts <= maxRetries)
    /\ [][\A r \in ReqIds :
            /\ (reqs[r].pc = "inflight" /\ reqs'[r].pc = "resolved") =>
                  reqs'[r].attempts = reqs[r].attempts
            /\ reqs[r].pc = "resolved" => reqs'[r].pc \in {"resolved", "idle"}]_vars

C14_Witness ==
    /\ maxRetries = DefaultMaxRetries
    /\ \E r, o \in ReqIds :
        /\ reqs[r].pc = "rejected"
        /\ reqs[r].attempts = DefaultMaxRetries + 1
        /\ reqs[r].failure = 500
        /\ reqs[o].pc = "resolved"
        /\ reqs[o].attempts = 2

\* C15: every failed HTTP attempt, whether or not a retry follows it, increments
\* the failure count of the client's circuit breaker by exactly one.
C15_EveryFailedAttemptCounts ==
    [][\A r \in ReqIds :
          (reqs[r].pc = "inflight" /\ reqs'[r].pc \in {"backoff", "rejected"}) =>
              breaker'.failures = breaker.failures + 1]_vars

\* C16: every successful attempt sets the failure count to 0 and closes the
\* circuit, so the circuit is open only when threshold failures have been
\* recorded since the last success.
C16_SuccessResetsFailures ==
    /\ [][\A r \in ReqIds :
            (reqs[r].pc = "inflight" /\ reqs'[r].pc = "resolved") =>
                (breaker'.failures = 0 /\ ~breaker'.isOpen)]_vars
    /\ [](breaker.isOpen => streak >= breaker.threshold)
    /\ [](streak = 0 => breaker.failures = 0)

C16_Witness ==
    \E r, o \in ReqIds :
        /\ reqs[r].pc = "resolved"
        /\ reqs[r].trial
        /\ reqs[o].pc = "rejected"
        /\ reqs[o].attempts > 0
        /\ breaker.failures = 1
        /\ ~breaker.isOpen

----------------------------------------------------------------------------
(* Properties of SimpleCache *)

\* the step is a call of op on the cache
CacheCall(op) == got'.op = op /\ got'.n # got.n

\* C17: get(key) returns the value most recently set for key as long as the
\* current time has not passed set time + ttlMs, and undefined when the key was
\* never set or the current time is later than that; a get leaves what every
\* other key reads unchanged, so entries expire independently.
C17_GetUntilExpiry ==
    [][CacheCall("get") =>
          LET key == got'.key
              last == sets[key]
          IN /\ (last.live /\ now <= last.at + last.ttlMs) => got'.value = last.value
             /\ (last.live /\ now > last.at + last.ttlMs) => got'.value = None
             /\ last = NeverSet => got'.value = None
             /\ \A k \in CacheKeys \ {key} :
                   SimpleCacheGet(cache', k, now) = SimpleCacheGet(cache, k, now)]_vars

C17_Witness ==
    /\ got.op = "get"
    /\ got.key = "k1"
    /\ got.value = None
    /\ sets["k1"].live
    /\ sets["k1"].ttlMs = 1000
    /\ now = sets["k1"].at + 1001
    /\ sets["k2"].live
    /\ SimpleCacheGet(cache, "k2", now) = sets["k2"].value

\* C18: set(key, value, ttlMs) replaces any entry the key has, expired or not:
\* afterwards the entry of key holds value and expires at now + ttlMs whatever the
\* previous expiry was, get(key) returns value at every time up to that expiry,
\* and no other entry changes.
C18_SetOverwrites ==
    [][CacheCall("set") =>
          LET key == got'.key
              new == sets'[key]
          IN /\ key \in DOMAIN cache'
             /\ cache'[key] = [value |-> new.value, expiry |-> now + new.ttlMs]
             /\ \A d \in {0, new.ttlMs} : SimpleCacheGet(cache', key, now + d) = new.value
             /\ SimpleCacheGet(cache', key, now + new.ttlMs + 1) = None
             /\ \A k \in DOMAIN cache \ {key} : k \in DOMAIN cache' /\ cache'[k] = cache[k]
             /\ DOMAIN cache' = DOMAIN cache \cup {key}]_vars

\* a second set with a longer TTL: the key is read past the first entry's expiry
C18_Witness ==
    /\ got.op = "get"
    /\ got.key = "k1"
    /\ sets["k1"].live
    /\ sets["k1"].ttlMs = 1000
    /\ sets["k1"].replaced # Unset
    /\ now > sets["k1"].replaced
    /\ got.value = sets["k1"].value
    /\ got.value.data = "b"

\* C19: delete(key) removes the entry of key and leaves every other entry
\* unchanged; clear() removes all entries; a get of a key removed by either and
\* not set again returns undefined.
C19_DeleteAndClear ==
    [][/\ CacheCall("delete") =>
             /\ got'.key \notin DOMAIN cache'
             /\ DOMAIN cache' = DOMAIN cache \ {got'.key}
             /\ \A k \in DOMAIN cache' : cache'[k] = cache[k]
       /\ CacheCall("clear") => DOMAIN cache' = {}
       /\ (CacheCall("get") /\ ~sets[got'.key].live) => got'.value = None]_vars

C19_Witness ==
    /\ got.op = "get"
    /\ got.key = "k1"
    /\ got.value = None
    /\ sets["k1"] # NeverSet
    /\ ~sets["k1"].live
    /\ now <= sets["k1"].at + sets["k1"].ttlMs
    /\ sets["k2"].live
    /\ sets["k2"].at < sets["k1"].at
    /\ SimpleCacheGet(cache, "k2", now) = sets["k2"].value

----------------------------------------------------------------------------
(* Properties of the result cache of TokenService *)

\* C20: when a fallback operation resolves with a result that did not come from
\* the cache, the step that resolves it has written that result under the
\* operation's key, expiring 60 000 ms later for getTokenPrice and 300 000 ms
\* later for getTokenMetadata, getTokenBalances and getWalletPortfolio; the price
\* TTL is the shorter one.
C20_SuccessIsCachedWithOperationTtl ==
    /\ PRICE_CACHE_TTL < DEFAULT_CACHE_TTL
    /\ [][\A f \in FrameIds :
            (/\ frames'[f].op \in LoopOps
             /\ frames[f].pc # "resolved"
             /\ frames'[f].pc = "resolved"
             /\ ~frames'[f].hit) =>
                LET key == CacheKey(frames'[f].op, frames'[f].subject)
                IN /\ key \in DOMAIN cache'
                   /\ cache'[key].value = frames'[f].result
                   /\ cache'[key].expiry =
                         now + (IF frames'[f].op = "getTokenPrice" THEN 60000 ELSE 300000)]_vars

C20_Witness ==
    LET price == CacheKey("getTokenPrice", "MintA")
        metadata == CacheKey("getTokenMetadata", "MintA")
    IN /\ price \in DOMAIN cache
       /\ metadata \in DOMAIN cache
       /\ cache[price].expiry = now + 60000
       /\ cache[metadata].expiry = now + 300000
       /\ \E f, g \in FrameIds :
            /\ frames[f].op = "getTokenPrice" /\ frames[f].pc = "resolved" /\ ~frames[f].hit
            /\ frames[g].op = "getTokenMetadata" /\ frames[g].pc = "resolved" /\ ~frames[g].hit

----------------------------------------------------------------------------
(* Properties of the configuration *)

\* C21: when the configuration sets cacheTtl, every entry the service writes to
\* its cache expires cacheTtl milliseconds after the write.
C21_ConfiguredTtlIsUsed ==
    [][("cacheTtl" \in DOMAIN config) =>
          \A key \in DOMAIN cache' :
             (key \notin DOMAIN cache \/ cache'[key] # cache[key]) =>
                 cache'[key].expiry = now + config["cacheTtl"]]_vars

----------------------------------------------------------------------------
(* Properties of getWalletPortfolio and of the price enrichment *)

\* C22: when no provider served getWalletPortfolio directly and the nested
\* getTokenBalances(address) resolved, the call does not reject and the portfolio
\* it returns has the requested address, solBalance 0 and, as its tokens, the
\* array the balances call returned.
C22_ReconstructedFromBalances ==
    /\ [](\A f \in FrameIds :
            frames[f].path = "reconstructed" =>
                /\ frames[f].op = "getWalletPortfolio"
                /\ frames[f].pc # "rejected"
                /\ Successes(frames[f].log) = {})
    /\ [][\A f \in FrameIds :
            /\ (/\ frames[f].pc = "awaitBalances"
                /\ frames'[f].pc # "awaitBalances"
                /\ frames[Kid(frames, f, "bal")].pc = "resolved") =>
                   /\ frames'[f].path = "reconstructed"
                   /\ frames'[f].work.address = frames[f].subject
                   /\ frames'[f].work.solBalance = 0
                   /\ frames'[f].work.tokens = frames[Kid(frames, f, "bal")].result.tokens
            /\ (/\ frames[f].path = "reconstructed"
                /\ frames[f].pc # "resolved"
                /\ frames'[f].pc = "resolved") =>
                   /\ frames'[f].result.kind = "portfolio"
                   /\ frames'[f].result.address = frames[f].subject
                   /\ frames'[f].result.solBalance = 0
                   /\ frames'[f].result.tokens = frames[f].work.tokens
            /\ (/\ frames[f].path = "reconstructed"
                /\ frames'[f].path = "reconstructed"
                /\ frames'[f].work.kind = "portfolio") =>
                   frames'[f].work.tokens = frames[f].work.tokens]_vars

C22_Witness ==
    \E f \in FrameIds :
        /\ frames[f].op = "getWalletPortfolio"
        /\ frames[f].pc = "resolved"
        /\ frames[f].path = "reconstructed"
        /\ Throws(frames[f].log) # {}
        /\ Successes(frames[f].nested) # {}
        /\ frames[f].result.address = "Wallet1"
        /\ frames[f].result.solBalance = 0
        /\ Len(objs[frames[f].result.tokens]) = 2

\* the enrichment of the portfolio an activation works on has fetched the SOL
\* price and the price of every token (each fetch has succeeded or failed)
EnrichmentCompleted(fr, tokens) == DOMAIN fr.fetched = 0..Len(tokens)

\* C23: a step that writes wallet-portfolio:<address> to the cache, and a step in
\* which getWalletPortfolio returns a portfolio that is not a cache hit, happens
\* only when the enrichment of that portfolio has completed, on the direct path
\* and on the reconstruction path alike.
C23_EnrichedBeforeCached ==
    [][/\ \A key \in DOMAIN cache' :
            (/\ key[1] = Prefix("getWalletPortfolio")
             /\ (key \notin DOMAIN cache \/ cache'[key] # cache[key])) =>
                \E f \in FrameIds :
                    /\ frames'[f].op = "getWalletPortfolio"
                    /\ frames'[f].subject = key[3]
                    /\ frames[f].pc # "resolved"
                    /\ frames'[f].pc = "resolved"
                    /\ frames'[f].result = cache'[key].value
                    /\ frames'[f].path \in {"direct", "reconstructed"}
                    /\ EnrichmentCompleted(frames[f], objs[cache'[key].value.tokens])
       /\ \A f \in FrameIds :
            (/\ frames'[f].op = "getWalletPortfolio"
             /\ frames[f].pc # "resolved"
             /\ frames'[f].pc = "resolved"
             /\ ~frames'[f].hit) =>
                /\ EnrichmentCompleted(frames[f], objs[frames'[f].result.tokens])
                /\ CacheKey("getWalletPortfolio", frames'[f].subject) \in DOMAIN cache'
                /\ cache'[CacheKey("getWalletPortfolio", frames'[f].subject)].value = frames'[f].result]_vars

C23_Witness ==
    \E f, g \in FrameIds :
        /\ frames[f].op = "getWalletPortfolio" /\ frames[f].pc = "resolved"
        /\ frames[f].path = "direct"
        /\ frames[g].op = "getWalletPortfolio" /\ frames[g].pc = "resolved"
        /\ frames[g].path = "reconstructed"
        /\ DOMAIN frames[f].fetched = 0..2
        /\ DOMAIN frames[g].fetched = 0..1
        /\ CacheKey("getWalletPortfolio", "Wallet1") \in DOMAIN cache
        /\ cache[CacheKey("getWalletPortfolio", "Wallet1")].value = frames[g].result

Enriching == {f \in FrameIds : frames[f].op = "getWalletPortfolio"
                               /\ frames[f].pc \in {"awaitSol", "awaitTokens"}}

PriceOrZero(p) == IF p = Unset THEN 0 ELSE p

\* the sum over tokens k..Len(tokens) of uiAmount x price fetched (0 if none)
RECURSIVE SumOfValues(_, _, _)
SumOfValues(tokens, fetched, k) ==
    IF k > Len(tokens) THEN 0
    ELSE tokens[k].uiAmount * PriceOrZero(fetched[k]) + SumOfValues(tokens, fetched, k + 1)

----------------------------------------------------------------------------
(* Properties of getTokenData *)

\* C26: getTokenData of a valid mint never rejects. When both sub-fetches have
\* settled it resolves: with the metadata fetched, or with
\* {mint, name '', symbol '', decimals 0} when getTokenMetadata failed; with the
\* price fetched, or with priceUsd and priceChangePercentage24h unset when
\* getTokenPrice failed; and so when both failed.
C26_SubFetchFailuresTolerated ==
    /\ [](\A f \in FrameIds :
            (frames[f].op = "getTokenData" /\ frames[f].pc = "rejected") =>
                ~isValidSolanaAddress(frames[f].subject))
    /\ [][\A f \in FrameIds :
            (frames[f].pc = "awaitBoth" /\ frames'[f].pc # "awaitBoth") =>
                LET m == frames[Kid(frames, f, "meta")]
                    p == frames[Kid(frames, f, "price")]
                    data == frames'[f].result
                IN /\ frames'[f].pc = "resolved"
                   /\ data.kind = "metadata"
                   /\ data.mint = frames[f].subject
                   /\ m.pc = "rejected" =>
                         data.name = "" /\ data.symbol = "" /\ data.decimals = 0
                   /\ m.pc = "resolved" =>
                         /\ data.name = m.result.name
                         /\ data.symbol = m.result.symbol
                         /\ data.decimals = m.result.decimals
                   /\ p.pc = "rejected" =>
                         data.priceUsd = Unset /\ data.priceChangePercentage24h = Unset
                   /\ p.pc = "resolved" =>
                         /\ data.priceUsd = p.result.priceUsd
                         /\ data.priceChangePercentage24h = p.result.priceChangePercentage24h]_vars

C26_Witness ==
    \E f \in FrameIds :
        /\ frames[f].op = "getTokenData"
        /\ frames[f].subject = "MintA"
        /\ frames[f].pc = "resolved"
        /\ ~frames[f].hit
        /\ frames[f].result.name = ""
        /\ frames[f].result.decimals = 0
        /\ frames[f].result.priceUsd = Unset
        /\ CacheKey("getTokenData", "MintA") \in DOMAIN cache
        /\ CacheKey("getTokenMetadata", "MintA") \notin DOMAIN cache
        /\ CacheKey("getTokenPrice", "MintA") \notin DOMAIN cache

----------------------------------------------------------------------------
(* Properties of the constructor *)

\* C27: for every documented provider block the configuration contains, the
\* constructor succeeds and the provider list holds exactly one provider of that
\* block.
C27_OneProviderPerDocumentedBlock ==
    built # NotConstructed =>
        \A b \in DOMAIN config \cap DocumentedBlocks :
            /\ built = Constructed
            /\ Cardinality({i \in 1..Len(providers) : providers[i] = ProviderName(b)}) = 1


\* C28: a configuration without any provider block makes the constructor throw
\* 'No token data providers configured', and so does every configuration from
\* which no provider is instantiated; a service that was constructed has at
\* least one provider.
C28_NoProviderNoService ==
    /\ built \in {NotConstructed, Constructed, NoProvidersError}
    /\ (built # NotConstructed /\ DOMAIN config \cap DocumentedBlocks = {}) =>
           built = NoProvidersError
    /\ built = NoProvidersError => (providers = <<>> /\ initializeProviders(config) = <<>>)
    /\ built = Constructed => Len(providers) > 0

C28_Witness ==
    /\ built = NoProvidersError
    /\ config = [b \in {"cacheTtl"} |-> ConfiguredCacheTtl]


\* the priority of the provider at position i of the list
PriorityAt(i) == Priority(config, BlockOf(providers[i]))

\* C29: the provider list of a constructed service is in ascending order of
\* priority number and holds the configured providers once each; no step of any
\* operation changes the list.
C29_SortedOnceAndForAll ==
    /\ [](built = Constructed =>
            /\ \A i, j \in 1..Len(providers) : i < j => PriorityAt(i) <= PriorityAt(j)
            /\ \A i, j \in 1..Len(providers) : providers[i] = providers[j] => i = j
            /\ {providers[i] : i \in 1..Len(providers)} =
                  {ProviderName(PushOrder[i]) : i \in {k \in 1..Len(PushOrder) : PushOrder[k] \in DOMAIN config}})
    /\ [][providers' = providers /\ config' = config]_vars

C29_Witness ==
    /\ providers = <<"birdeye", "jupiter">>
    /\ initializeProviders(config) = <<"jupiter", "birdeye">>
    /\ calls = MaxCalls
    /\ \E f, g \in FrameIds :
          /\ f # g
          /\ frames[f].pc = "resolved" /\ frames[g].pc = "resolved"
          /\ Len(frames[f].log) = 2 /\ frames[f].log[1].provider = "birdeye"
          /\ Len(frames[g].log) = 2 /\ frames[g].log[1].provider = "birdeye"

----------------------------------------------------------------------------
(* Properties of the values held by the cache *)

\* what a caller reads through the entry under key: the value and, for balances
\* and portfolios, the tokens of the array the value refers to
Stored(c, heap, key) ==
    LET v == c[key].value
    IN IF v.kind \in {"balances", "portfolio"} THEN <<v, heap[v.tokens]>> ELSE <<v>>

\* C30: in a step that does not write, delete or clear the entry under a key,
\* what is stored under that key does not change.
C30_CachedValuesNeverMutated ==
    [][\A key \in DOMAIN cache \cap DOMAIN cache' :
          cache'[key] = cache[key] => Stored(cache', objs', key) = Stored(cache, objs, key)]_vars

----------------------------------------------------------------------------
(* Further properties of the fallback loops *)

\* C33: a fallback loop invokes only providers that implement the operation;
\* its error list has one entry per provider that was invoked and failed (plus
\* the 'fallback' entry of a failed reconstruction) and none for a provider that
\* was passed over; a call that misses the cache invokes the first provider of
\* the list that implements the operation, whatever stands before it.
C33_IncapableProviderSkipped ==
    \A f \in Loops :
        LET fr == frames[f]
            log == fr.log
            failed == Cardinality(Throws(log))
        IN /\ \A j \in 1..Len(log) : fr.op \in Capabilities(log[j].provider)
           /\ Len(fr.errors) =
                 failed + (IF fr.op = "getWalletPortfolio" /\ fr.pc = "rejected"
                              /\ fr.subject \in ValidAddresses THEN 1 ELSE 0)
           /\ \A e \in 1..failed : fr.errors[e] = ProviderError(log[2 * e].provider, log[2 * e].msg)
           /\ (fr.subject \in ValidAddresses /\ ~fr.hit /\ CapablePositions(fr.op) # {}) =>
                 /\ Len(log) >= 1
                 /\ log[1] = InvokeEvent(providers[MinOf(CapablePositions(fr.op))])

C33_Witness ==
    \E f \in Loops :
        /\ frames[f].op = "getTokenBalances"
        /\ frames[f].pc = "resolved"
        /\ providers = <<"jupiter", "helius-das">>
        /\ frames[f].log = <<InvokeEvent("helius-das"), ReturnEvent("helius-das")>>
        /\ frames[f].errors = <<>>

----------------------------------------------------------------------------
(* Further properties of HttpClient and its circuit breaker *)

\* C34: a request refused because the circuit is open leaves failures,
\* lastFailureTime and isOpen as they were; and a request made on an open
\* circuit more than resetTimeout after the last recorded failure is admitted,
\* however many requests were refused before.
C34_RefusalRecordsNothing ==
    [][\A r \in ReqIds :
          /\ (reqs[r].pc = "idle" /\ reqs'[r].pc = "rejected") =>
                /\ reqs'[r].error = CircuitOpenError
                /\ reqs'[r].attempts = 0
                /\ breaker' = breaker
                /\ streak' = streak
          /\ (/\ reqs[r].pc = "idle"
              /\ reqs'[r].pc # "idle"
              /\ breaker.isOpen
              /\ now - breaker.lastFailureTime > breaker.resetTimeout) =>
                reqs'[r].pc = "inflight"]_vars

C34_Witness ==
    /\ reqs[1].pc = "rejected"
    /\ reqs[1].error = CircuitOpenError
    /\ reqs[2].pc = "inflight"
    /\ reqs[2].trial
    /\ breaker.failures = DefaultThreshold
    /\ breaker.lastFailureTime = 0
    /\ now = DefaultResetTimeout + 1


\* C35: canRequest() is called once for a request, before its first attempt: a
\* request that was admitted is never refused later, its retry attempts leave
\* the breaker as it is and are made also while the circuit is open.
C35_GateConsultedOnce ==
    /\ [](\A r \in ReqIds :
            /\ reqs[r].pc # "idle" => reqs[r].consulted = 1
            /\ reqs[r].error = CircuitOpenError => reqs[r].attempts = 0)
    /\ [][\A r \in ReqIds :
            /\ (reqs[r].pc = "backoff" /\ reqs'[r].pc # "backoff") =>
                  /\ reqs'[r].pc = "inflight"
                  /\ reqs'[r].attempts = reqs[r].attempts + 1
                  /\ breaker' = breaker
            /\ reqs[r].pc = "inflight" => reqs'[r].error # CircuitOpenError]_vars

C35_Witness ==
    \E r \in ReqIds :
        /\ reqs[r].pc = "inflight"
        /\ reqs[r].attempts = 2
        /\ reqs[r].retriedOpen
        /\ ~reqs[r].trial
        /\ breaker.isOpen


----------------------------------------------------------------------------
(* Properties of overlapping calls *)

PlainOps == {"getTokenPrice", "getTokenMetadata", "getTokenBalances"}

\* two activations of the same plain operation for the same subject, both past
\* validation and both having missed the cache
Overlapping(f, g) ==
    /\ f # g
    /\ frames[f].op \in PlainOps
    /\ frames[f].op = frames[g].op
    /\ frames[f].subject = frames[g].subject
    /\ isValidSolanaAddress(frames[f].subject)
    /\ ~frames[f].hit /\ ~frames[g].hit
    /\ frames[f].pc # "free" /\ frames[g].pc # "free"

\* C36: calls are not coalesced.  Of two overlapping calls of one operation for
\* one subject that both missed the cache, each runs its own loop and invokes
\* the providers itself, and each, when a provider returns to it, overwrites
\* the entry of the key with its own result: the entry is the result of the
\* call that completed last.
C36_NoCoalescing ==
    /\ [](\A f, g \in FrameIds :
            (Overlapping(f, g) /\ NextCapable(frames[f].op, 1) # 0) =>
                /\ Len(frames[f].log) >= 1
                /\ frames[f].log[1] = InvokeEvent(providers[NextCapable(frames[f].op, 1)]))
    /\ [][\A f \in FrameIds :
            (/\ frames[f].op \in PlainOps
             /\ frames[f].pc = "awaitProvider"
             /\ frames'[f].pc = "resolved") =>
                LET key == CacheKey(frames[f].op, frames[f].subject)
                IN /\ key \in DOMAIN cache'
                   /\ cache'[key].value = frames'[f].result
                   /\ cache'[key].expiry = now + TtlOf(frames[f].op)]_vars

C36_Witness ==
    \E f, g \in FrameIds :
        /\ Overlapping(f, g)
        /\ frames[f].op = "getTokenPrice"
        /\ frames[f].pc = "resolved" /\ frames[g].pc = "resolved"
        /\ frames[f].log = <<InvokeEvent("helius-das"), ReturnEvent("helius-das")>>
        /\ Len(frames[g].log) = 4
        /\ frames[f].result # frames[g].result
        /\ cache[CacheKey("getTokenPrice", frames[f].subject)].value = frames[g].result
        /\ cache[CacheKey("getTokenPrice", frames[f].subject)].expiry = now + PRICE_CACHE_TTL
        /\ now > 0


----------------------------------------------------------------------------
(* Properties of failing calls *)

FallbackOps == PlainOps \cup {"getWalletPortfolio"}

\* the positions at which an activation of a fallback operation has not succeeded
NotSucceeded(pc) == pc \in {"awaitProvider", "awaitBalances", "exhausted", "rejected"}

\* what get(key) gives now and at the later times the clock can show
SameEntries(c, d) ==
    \A key \in DOMAIN c \cup DOMAIN d, ahead \in {0} \cup Deltas :
        SimpleCacheGet(c, key, now + ahead) = SimpleCacheGet(d, key, now + ahead)

\* C37: a fallback operation that fails on every provider writes nothing to the
\* cache.  A rejected call never had a provider return to it, and no step of a
\* call that leaves it short of success changes what the cache gives for any
\* key (the private map is only read through get; the lookup of the call may
\* drop an entry that had already expired).  A later call finds no entry and
\* invokes the providers again.
C37_FailureWritesNothing ==
    /\ [](\A f \in FrameIds :
            (frames[f].op \in FallbackOps /\ frames[f].pc = "rejected") =>
                /\ frames[f].path = "none"
                /\ \A i \in DOMAIN frames[f].log : ~frames[f].log[i].ok
                /\ \A i \in DOMAIN frames[f].nested : ~frames[f].nested[i].ok)
    /\ [][\A f \in FrameIds :
            (/\ frames'[f] # frames[f]
             /\ frames'[f].op \in FallbackOps
             /\ NotSucceeded(frames'[f].pc)) => SameEntries(cache, cache')]_vars

C37_Witness ==
    \E f, g \in FrameIds :
        /\ frames[f].op = "getWalletPortfolio" /\ frames[g].op = "getWalletPortfolio"
        /\ frames[f].subject = frames[g].subject
        /\ frames[f].pc = "rejected"
        /\ Len(frames[f].errors) = 2
        /\ Len(frames[f].nested) = 2
        /\ frames[g].pc = "awaitProvider"
        /\ frames[g].log = <<InvokeEvent("helius-das")>>
        /\ DOMAIN cache = {}


----------------------------------------------------------------------------
(* Further properties of getTokenData *)

\* C38: when metadata and price both failed, getTokenData still stores its
\* result, the placeholder without a price, under token-data:<mint> with the
\* 60 000 ms TTL; a getTokenData for the mint made while that entry has not
\* expired returns it and starts no nested call, so invokes no provider.
C38_PlaceholderIsCached ==
    [][\A f \in FrameIds :
          /\ (/\ frames[f].pc = "awaitBoth"
              /\ frames'[f].pc = "resolved"
              /\ \A kid \in Kids(frames, f) : frames[kid].pc = "rejected") =>
                 /\ frames'[f].result = placeholder(frames[f].subject)
                 /\ CacheKey("getTokenData", frames[f].subject) \in DOMAIN cache'
                 /\ cache'[CacheKey("getTokenData", frames[f].subject)] =
                        [value |-> placeholder(frames[f].subject), expiry |-> now + 60000]
          /\ (/\ frames[f].pc = "free"
              /\ frames'[f].op = "getTokenData"
              /\ CacheKey("getTokenData", frames'[f].subject) \in DOMAIN cache
              /\ now <= cache[CacheKey("getTokenData", frames'[f].subject)].expiry) =>
                 /\ frames'[f].pc = "resolved"
                 /\ frames'[f].hit
                 /\ frames'[f].result = cache[CacheKey("getTokenData", frames'[f].subject)].value
                 /\ frames'[f].log = <<>>
                 /\ \A g \in FrameIds \ {f} : frames'[g] = frames[g]
                 /\ cache' = cache]_vars

C38_Witness ==
    \E f \in FrameIds :
        /\ frames[f].op = "getTokenData"
        /\ frames[f].pc = "resolved"
        /\ frames[f].hit
        /\ frames[f].result = placeholder("MintA")
        /\ now = PRICE_CACHE_TTL
        /\ cache[CacheKey("getTokenData", "MintA")].expiry = PRICE_CACHE_TTL
        /\ Kids(frames, f) = {}


----------------------------------------------------------------------------
(* Termination *)

Invocations(log, name) == Cardinality({i \in DOMAIN log : log[i] = InvokeEvent(name)})

\* the nested calls of an enrichment: at most one for SOL (position 0) and one
\* for each token of the portfolio, none made twice
NestedCallsBounded(f) ==
    LET fr == frames[f]
        kids == Kids(frames, f)
    IN /\ \A i, j \in kids : (frames[i].role = frames[j].role /\ frames[i].k = frames[j].k) => i = j
       /\ fr.op = "getWalletPortfolio" =>
             /\ \A i \in kids : frames[i].role \in {"bal", "sol", "tok"}
             /\ fr.pc = "awaitBalances" => \A i \in kids : frames[i].role = "bal"
             /\ fr.pc = "awaitSol" => \A i \in kids : frames[i].role = "sol"
             /\ fr.pc = "awaitTokens" =>
                   /\ \A i \in kids : /\ frames[i].role = "tok"
                                      /\ frames[i].k \in 1..Len(objs[fr.work.tokens])
                                      /\ frames[i].k \notin DOMAIN fr.fetched
                   /\ DOMAIN fr.fetched \subseteq 0..Len(objs[fr.work.tokens])
             /\ (fr.pc = "resolved" /\ ~fr.hit) =>
                   /\ kids = {}
                   /\ DOMAIN fr.fetched = 0..Len(objs[fr.result.tokens])

\* C39: when every provider call completes, every call of a public operation
\* completes, with a result or with an error.  A loop invokes each provider at
\* most once in a call, and a getWalletPortfolio starts at most one balances
\* loop, one SOL price fetch and one price fetch for each token.
C39_EveryCallCompletes ==
    /\ [](\A f \in FrameIds :
            /\ \A i \in 1..Len(providers) : Invocations(frames[f].log, providers[i]) <= 1
            /\ \A i \in 1..Len(providers) : Invocations(frames[f].nested, providers[i]) <= 1
            /\ NestedCallsBounded(f))
    /\ \A f \in FrameIds :
          (frames[f].pc # "free" /\ frames[f].parent = 0) ~> Settled(frames[f])

C39_Witness ==
    \E f \in FrameIds :
        /\ frames[f].op = "getWalletPortfolio"
        /\ frames[f].pc = "resolved"
        /\ frames[f].path = "reconstructed"
        /\ Len(frames[f].log) = 2
        /\ Len(frames[f].nested) = 2
        /\ DOMAIN frames[f].fetched = 0..2
        /\ frames[f].fetched[0] = Unset
        /\ frames[f].fetched[2] = Unset


----------------------------------------------------------------------------
(* Properties of the circuit breakers of the providers *)

\* in this step activation f gets the outcome of a request the client of
\* provider `name` made for it
Observes(f, name) ==
    /\ frames[f].pc = "awaitProvider"
    /\ ~frames[f].refused
    /\ providers[frames[f].idx] = name
    /\ frames'[f] # frames[f]

\* in this step activation f invokes provider `name`, whose client consults
\* its breaker
Consults(f, name) ==
    /\ frames'[f].pc = "awaitProvider"
    /\ providers[frames'[f].idx] = name
    /\ frames'[f] # frames[f]

\* C31: each provider's client owns its circuit breaker.  The breaker of a
\* provider changes only in a step in which that provider's own client observes
\* the outcome of a request (recordSuccess, recordFailure) or is asked for one
\* (canRequest); and whether a request is refused depends on the breaker of the
\* invoked provider alone, so a circuit open on one provider does not block
\* another.
C31_BreakerPerProvider ==
    [][/\ \A name \in HttpBacked :
            breakers'[name] # breakers[name] =>
                \E f \in FrameIds :
                    \/ /\ Observes(f, name)
                       /\ breakers'[name] \in {recordSuccess(breakers[name]),
                                               recordFailure(breakers[name], now)}
                    \/ /\ Consults(f, name)
                       /\ breakers'[name] = canRequest(breakers[name], now).breaker
       /\ \A f \in FrameIds :
            (frames'[f].pc = "awaitProvider" /\ frames'[f] # frames[f]) =>
                (frames'[f].refused <=>
                    ~canRequest(breakers[providers[frames'[f].idx]], now).value)]_vars

C31_Witness ==
    /\ providers = <<"birdeye", "jupiter">>
    /\ breakers["birdeye"] = recordFailure(Failed(DefaultThreshold - 1), PRICE_CACHE_TTL)
    /\ breakers["birdeye"].isOpen
    /\ breakers["jupiter"] = Failed(DefaultThreshold - 1)
    /\ \E f \in FrameIds :
          /\ frames[f].pc = "awaitProvider"
          /\ providers[frames[f].idx] = "jupiter"
          /\ ~frames[f].refused
          /\ Len(frames[f].log) = 3

\* C32: the rejection of a provider whose circuit is open is handled by the
\* loop like any other provider failure: `<name>: <message>` is added to the
\* errors and the loop goes on to the next provider that implements the
\* operation, or throws the aggregate error when there is none; the call
\* resolves when a later provider returns.
C32_RefusalFallsThrough ==
    [][\A f \in FrameIds :
          (frames[f].pc = "awaitProvider" /\ frames[f].refused /\ frames'[f] # frames[f]) =>
              LET fr == frames[f]
                  name == providers[fr.idx]
                  errors == Append(fr.errors, ProviderError(name, CircuitOpenError.message))
                  next == NextCapable(fr.op, fr.idx + 1)
              IN /\ frames'[f].errors = errors
                 /\ frames'[f].log[Len(fr.log) + 1] = ThrowEvent(name, CircuitOpenError.message)
                 /\ IF next # 0
                    THEN /\ frames'[f].pc = "awaitProvider"
                         /\ frames'[f].idx = next
                         /\ frames'[f].log = fr.log \o <<ThrowEvent(name, CircuitOpenError.message),
                                                         InvokeEvent(providers[next])>>
                    ELSE /\ frames'[f].pc = "rejected"
                         /\ frames'[f].result =
                               PlainError(AggregateMessage(fr.op, fr.subject, errors))]_vars

C32_Witness ==
    \E f \in FrameIds :
        /\ frames[f].op = "getTokenPrice"
        /\ frames[f].pc = "resolved"
        /\ frames[f].errors = <<ProviderError("birdeye", CircuitOpenError.message)>>
        /\ frames[f].result.provider = "jupiter"
        /\ frames[f].log = <<InvokeEvent("birdeye"), ThrowEvent("birdeye", CircuitOpenError.message),
                             InvokeEvent("jupiter"), ReturnEvent("jupiter")>>
        /\ breakers["birdeye"].isOpen
        /\ cache[CacheKey("getTokenPrice", frames[f].subject)].value = frames[f].result

====
